---- MODULE Spec2Model ----
(***************************************************************************)
(* Flight firmware of the high-altitude-balloon payload                    *)
(* (src/Balloon/src/main.cpp, version 1.0.1): five FreeRTOS tasks, the     *)
(* mutex-guarded configuration and status records, the transmit, command   *)
(* and relay queues, and the command protocol.                             *)
(*                                                                         *)
(* Conventions.  A byte of the serial stream is a symbol: "@", "#", ",",   *)
(* "\n", a digit, a sign, or a word such as "SET" that stands for the      *)
(* characters of that word and counts as one byte.  A C string is the      *)
(* sequence of its symbols.  Every blocking call (queue send or receive,   *)
(* mutex take, delay) ends a step, so that the tasks interleave at the     *)
(* places where the scheduler can switch them.                             *)
(***************************************************************************)
EXTENDS Integers, Sequences, FiniteSets, TLC

(* ------------------------------------------------------------------ *)
(* Program constants                                                  *)
(* ------------------------------------------------------------------ *)
MAX_TX_BUFF_SIZE == 512
MAX_RX_BUFF_SIZE == 512
SSDV_SIZE_NOFEC == 256
SSDV_FEED_BUFF_SIZE == 128
CAM_CALIBRATE_TIMES == 5
DEBUG_MODE == TRUE
RELAY_CEILING == 80
TX_ATTEMPTS == 3

\* framesize_t of the camera driver: only the order of the values matters
FRAMESIZE_QVGA == 5
FRAMESIZE_VGA == 8
FRAMESIZE_SVGA == 9
FRAMESIZE_XGA == 10
FRAMESIZE_SXGA == 12
FRAMESIZE_FHD == 14

SSDV_TYPE_NORMAL == 0
SSDV_TYPE_NOFEC == 1

(* ------------------------------------------------------------------ *)
(* Bounds of the model                                                *)
(* ------------------------------------------------------------------ *)
TxQueueLen == 2        \* slots of txQueue (120 in the firmware)
RxQueueLen == 2        \* slots of cmdQueue and of relayQueue (10 in the firmware)
MaxPackets == 1        \* packets the encoder completes for one image
MaxLog == 12           \* longest response log of one command
RequestLengths == {1, MAX_TX_BUFF_SIZE, MAX_TX_BUFF_SIZE + 1}

\* the five tasks, the Arduino loop task, and a caller of the Link Arbiter
Tasks == {"datalink", "command", "telemetry", "ssdv", "relay", "loop", "client"}
NoTask == "none"

(* ------------------------------------------------------------------ *)
(* State                                                              *)
(* ------------------------------------------------------------------ *)
VARIABLES
  g_systemConfig,        \* SystemConfig_t
  g_systemStatus,        \* SystemStatus_t
  Initialization_Status,
  g_configMutex, g_stateMutex, cameraMutex,   \* holder of each mutex, or NoTask
  txQueue, cmdQueue, relayQueue,
  serialRx,              \* bytes received by the UART and not yet read
  frame_buffer,          \* frame_buffer[0 .. frame_len-1] of the Data-Link Task
  pc,                    \* position of each task
  call,                  \* the shared-service call each task is inside, or NoCall
  tx_result,             \* return value of the last Transmit_Data of each task
  timeouts,              \* waits of xQueueSend(txQueue, ..) that may still expire
  local_status,          \* status copies held by the functions that took one
  local_config,          \* config copies held by the functions that took one
  cmd,                   \* type / target / value of the command being handled
  config_changed,        \* config_changed of Handle_SET_Command
  reconf,                \* which reconfiguration runs, calibration index
  camera,                \* configuration the camera driver was initialised with
  img,                   \* Image Task: frame, read index, retry count
  tel,                   \* Telemetry Task: retries and GPS_Validity of the cycle
  ssdvImageId,
  relay_count_since_reset, relay_limited_warned,
  Telemetry_Counter,
  device,                \* "running" or "restarted" (esp_restart was called)
  env,                   \* what the environment may still do (frames, faults)
  obs                    \* observations of the run the properties speak about

\* what a step that starts a shared service may change (see Do)
svc == <<pc, call, tx_result, txQueue, timeouts, g_configMutex, g_stateMutex>>
shared == <<g_systemConfig, g_systemStatus>>
inq == <<cmdQueue, relayQueue>>
rx == <<serialRx, frame_buffer>>
copies == <<local_status, local_config>>
cmdloc == <<cmd, config_changed, reconf, camera>>
imgloc == <<img, ssdvImageId>>
relayloc == <<relay_count_since_reset, relay_limited_warned>>
telloc == <<tel, Telemetry_Counter>>
vars == <<svc, shared, Initialization_Status, cameraMutex, inq, rx, copies, cmdloc, imgloc,
          relayloc, telloc, device, env, obs>>

(* ------------------------------------------------------------------ *)
(* Records                                                            *)
(* ------------------------------------------------------------------ *)
\* g_systemConfig as initialised at boot
DefaultConfig ==
  [cameraImageSize |-> FRAMESIZE_VGA, cameraImageQuality |-> 5,
   ssdvPacketType |-> SSDV_TYPE_NOFEC, ssdvEncodingQuality |-> 2,
   ssdvCycleTimeSec |-> 60]

\* g_systemStatus as initialised at boot
DefaultStatus ==
  [isRelayEnabled |-> TRUE, isSsdvEnabled |-> TRUE,
   isBuzzerEnabled |-> TRUE, isSsdvTransmitting |-> FALSE]

NoCall == [proc |-> "none"]
NoCmd == [type |-> <<>>, target |-> <<>>, value |-> <<>>]
NoReconf == [attempt |-> 0]
\* fb: a frame is held; len: fb->len; eoi: the frame data holds its end-of-image
\* marker; index, c, packet_count, retry_count: the locals of Process_SSDV_Packet
NoImg ==
  [fb |-> FALSE, len |-> 0, eoi |-> TRUE, index |-> 0, c |-> 0,
   sending |-> FALSE, packet_count |-> 0, retry_count |-> 0, id |-> 0]
NoTel == [retries |-> 0, validity |-> "V"]
NoCamera == [inited |-> FALSE, frame_size |-> 0, jpeg_quality |-> 0]

Min(a, b) == IF a < b THEN a ELSE b

(* ------------------------------------------------------------------ *)
(* Strings                                                            *)
(* ------------------------------------------------------------------ *)
Digits == <<"0", "1", "2", "3", "4", "5", "6", "7", "8", "9">>
IsDigit(c) == \E d \in 1..10 : Digits[d] = c
DigitVal(c) == (CHOOSE d \in 1..10 : Digits[d] = c) - 1

RECURSIVE AtoiDigits(_, _)
AtoiDigits(s, acc) ==
  IF s = <<>> \/ ~IsDigit(Head(s)) THEN acc
  ELSE AtoiDigits(Tail(s), acc * 10 + DigitVal(Head(s)))

\* atoi(): optional sign, then the leading digits; 0 when there are none
atoi(s) ==
  IF s = <<>> THEN 0
  ELSE IF Head(s) = "-" THEN 0 - AtoiDigits(Tail(s), 0)
  ELSE IF Head(s) = "+" THEN AtoiDigits(Tail(s), 0)
  ELSE AtoiDigits(s, 0)

RECURSIVE Tokenize(_, _, _)
\* the tokens strtok_r(.., ",", ..) returns one after the other: maximal runs
\* of symbols other than ",", empty runs skipped
Tokenize(s, cur, acc) ==
  IF s = <<>> THEN (IF cur = <<>> THEN acc ELSE Append(acc, cur))
  ELSE IF Head(s) = ","
       THEN Tokenize(Tail(s), <<>>, IF cur = <<>> THEN acc ELSE Append(acc, cur))
       ELSE Tokenize(Tail(s), Append(cur, Head(s)), acc)

RECURSIVE NumLen(_)
\* number of characters "%d" prints
NumLen(n) == IF n < 0 THEN 1 + NumLen(0 - n) ELSE IF n < 10 THEN 1 ELSE 1 + NumLen(n \div 10)

(* ------------------------------------------------------------------ *)
(* Outbound frames                                                    *)
(* ------------------------------------------------------------------ *)
\* the content Transmit_Status formats: "Code: 0x%04X" or "Code: 0x%04X, Info: %s"
StatusBody(code, has, info) == [kind |-> "status", code |-> code, has |-> has, info |-> info]
RelayBody(payload) == [kind |-> "relay", payload |-> payload]
TelemetryBody(n, validity) == [kind |-> "telemetry", counter |-> n, validity |-> validity]
\* a buffer printed with "%s"
TextBody(text) == [kind |-> "text", text |-> text]

BodyLen(b) ==
  CASE b.kind = "status" -> 12 + (IF b.has THEN 8 + NumLen(b.info) ELSE 0)
    [] b.kind = "relay" -> 8 + Len(b.payload)
    [] b.kind = "text" -> Len(b.text)
    [] OTHER -> 60 + NumLen(b.counter)

TextHeader == <<"*", "*", " ">>
TextTrailer == <<" ", "*", "*">>

\* the characters (v)snprintf(dst, size, ..) stores in front of the terminator,
\* of the n it was given to print
Snprintf(size, n) == Min(n, size - 1)

\* what Transmit_Text leaves in its buffer: the header at offset 0, the content
\* at the offset the first snprintf returned, the trailer at strlen(buffer)
TextParts(b) ==
  LET h == Snprintf(MAX_TX_BUFF_SIZE, Len(TextHeader))
      c == Snprintf(MAX_TX_BUFF_SIZE - Len(TextHeader), BodyLen(b))
      t == Snprintf(MAX_TX_BUFF_SIZE - (h + c), Len(TextTrailer))
  IN [header |-> h, content |-> c, trailer |-> t]

\* the RadioPacket_t Transmit_Text builds: total_length = strlen(buffer)
TextPacket(b) ==
  [data |-> b,
   length |-> TextParts(b).header + TextParts(b).content + TextParts(b).trailer,
   is_binary |-> FALSE]

\* the RadioPacket_t of one SSDV packet of image id
SsdvPacket(id, n) ==
  [data |-> [kind |-> "ssdv", image |-> id, seq |-> n], length |-> SSDV_SIZE_NOFEC, is_binary |-> TRUE]

(* ------------------------------------------------------------------ *)
(* Control                                                            *)
(* ------------------------------------------------------------------ *)
\* task t is running its own code (it is not inside a shared service)
At(t, l) == device = "running" /\ pc[t] = l /\ call[t] = NoCall
In(t, p) == device = "running" /\ call[t].proc = p

Enter(t, c) == [call EXCEPT ![t] = c]

GetStatus == [proc |-> "GET_System_Status", phase |-> "take"]
\* variant: the call that reads the record writes it from the caller's copy
GetConfig_AsUpdate(dst) == [proc |-> "Update_System_Config", phase |-> "take", src |-> dst]

GetConfig(dst) == [proc |-> "GET_System_Config", phase |-> "take", dst |-> dst]
UpdateStatus(param, value) ==
  [proc |-> "Update_System_Status", phase |-> "take", param |-> param, value |-> value]
UpdateConfig(src) == [proc |-> "Update_System_Config", phase |-> "take", src |-> src]
\* Transmit_Text(..) calls Transmit_Data(buffer, strlen(buffer), false, true)
SendText(b) ==
  [proc |-> "Transmit_Data", packet |-> TextPacket(b), front |-> TRUE,
   via_text |-> TRUE, i |-> 0, j |-> 0]
\* variant: every packet is sent with priority
SendData_Priority(p, front) ==
  [proc |-> "Transmit_Data", packet |-> p, front |-> TRUE,
   via_text |-> FALSE, i |-> 0, j |-> 0]

SendData(p, front) ==
  [proc |-> "Transmit_Data", packet |-> p, front |-> front,
   via_text |-> FALSE, i |-> 0, j |-> 0]
SendStatus(code) == SendText(StatusBody(code, FALSE, 0))
SendStatusInfo(code, info) == SendText(StatusBody(code, TRUE, info))

\* Serial.write(txPacket.data, txPacket.length): the packets written to the
\* serial port, in the order of the writes, in the runs that keep them
Written(o, p) == IF o.wire.on THEN [o EXCEPT !.wire.log = Append(@, p)] ELSE o

\* the responses of the command being handled, as submitted to Transmit_Status
Logged(o, code, has, info) ==
  [o EXCEPT !.cmdLog = IF Len(@) < MaxLog
                       THEN Append(@, [code |-> code, has |-> has, info |-> info]) ELSE @]

(* ------------------------------------------------------------------ *)
(* Link Arbiter                                                       *)
(* ------------------------------------------------------------------ *)
\* xQueueSend / xQueueSendToFront on a queue that has a free slot
\* variant: the packet is copied into two slots
Enqueue_Twice(q, p, front) == IF front THEN <<p, p>> \o q ELSE q \o <<p, p>>

Enqueue(q, p, front) == IF front THEN <<p>> \o q ELSE Append(q, p)

\* variant: the loop runs once more
LastAttempt_OneMore(i) == ~(i < TX_ATTEMPTS)

\* the loop of Transmit_Data "for (i = 0; i < 3; i++)" ends after pass i
LastAttempt(i) == ~(i + 1 < TX_ATTEMPTS)

\* xQueueSend finds a free slot within its wait
HasRoom(q, n) == Len(q) < n

\* what the caller does with the value r that Transmit_Data returned:
\* Transmit_Text calls again until it has called TX_ATTEMPTS times
AfterTransmit(c, r) ==
  IF c.via_text /\ ~r /\ c.j + 1 < TX_ATTEMPTS
  THEN [c EXCEPT !.i = 0, !.j = @ + 1]
  ELSE NoCall

\* one pass of the loop of Transmit_Data for the call c of task t: the length
\* check (before the first pass), then one xQueueSend with its 500 ms wait.
\* The wait expires only as often as the run allows; otherwise the task stays
\* in xQueueSend until the Data-Link Task has made room.
TransmitPass(t, c) ==
  IF c.packet.length > MAX_TX_BUFF_SIZE
  THEN /\ call' = Enter(t, AfterTransmit(c, FALSE))
       /\ tx_result' = [tx_result EXCEPT ![t] = IF c.via_text THEN @ ELSE FALSE]
       /\ UNCHANGED <<txQueue, timeouts>>
  ELSE IF HasRoom(txQueue, TxQueueLen)
  THEN /\ txQueue' = Enqueue(txQueue, c.packet, c.front)
       /\ call' = Enter(t, AfterTransmit(c, TRUE))
       /\ tx_result' = [tx_result EXCEPT ![t] = IF c.via_text THEN @ ELSE TRUE]
       /\ UNCHANGED timeouts
  ELSE IF timeouts = 0
  THEN /\ call' = Enter(t, c)
       /\ UNCHANGED <<txQueue, tx_result, timeouts>>
  ELSE IF ~LastAttempt(c.i)
  THEN /\ call' = Enter(t, [c EXCEPT !.i = @ + 1])
       /\ timeouts' = timeouts - 1
       /\ UNCHANGED <<txQueue, tx_result>>
  ELSE /\ call' = Enter(t, AfterTransmit(c, FALSE))
       /\ tx_result' = [tx_result EXCEPT ![t] = IF c.via_text THEN @ ELSE FALSE]
       /\ timeouts' = timeouts - 1
       /\ txQueue' = txQueue

\* a pass of a Transmit_Data that did not return in the step that called it
Transmit_Data(t) ==
  /\ In(t, "Transmit_Data")
  /\ timeouts > 0 \/ HasRoom(txQueue, TxQueueLen) \/ call[t].packet.length > MAX_TX_BUFF_SIZE
  /\ TransmitPass(t, call[t])
  /\ UNCHANGED <<pc, g_configMutex, g_stateMutex, shared, Initialization_Status, cameraMutex,
                 inq, rx, copies, cmdloc, imgloc, relayloc, telloc, device, env, obs>>

(* ------------------------------------------------------------------ *)
(* Shared State Store                                                 *)
(* ------------------------------------------------------------------ *)
\* xSemaphoreTake(m, portMAX_DELAY) by a task that enters service c: the
\* mutex is taken if it is free, otherwise the task waits in the call
TakeOrWait(t, c, m) == IF m = NoTask THEN [c EXCEPT !.phase = "held"] ELSE c
Holder(t, m) == IF m = NoTask THEN t ELSE m

\* variant: the mutex is not given back
Give_Forgotten(t) == t

\* xSemaphoreGive(g_configMutex) / xSemaphoreGive(g_stateMutex) by the holder t
Give(t) == NoTask

\* variant: the take does not wait for the holder
Free_Always(m) == TRUE

\* xSemaphoreTake(m, portMAX_DELAY) returns when no task holds m
Free(m) == m = NoTask

\* variant: the camera mutex is not given back
GiveCamera_Forgotten(t) == t

\* xSemaphoreGive(cameraMutex) by the holder t
GiveCamera(t) == NoTask

\* task t goes on at position next and calls the service op (NoCall: none).
\* The code of the task up to the first blocking call of the service touches
\* nothing another task sees, so that call belongs to the same step.
Do(t, next, op) ==
  /\ pc' = [pc EXCEPT ![t] = next]
  /\ CASE op.proc = "Transmit_Data" ->
            /\ TransmitPass(t, op)
            /\ UNCHANGED <<g_configMutex, g_stateMutex>>
       [] op.proc \in {"GET_System_Config", "Update_System_Config"} ->
            /\ call' = Enter(t, TakeOrWait(t, op, g_configMutex))
            /\ g_configMutex' = Holder(t, g_configMutex)
            /\ UNCHANGED <<g_stateMutex, txQueue, tx_result, timeouts>>
       [] op.proc \in {"GET_System_Status", "Update_System_Status"} ->
            /\ call' = Enter(t, TakeOrWait(t, op, g_stateMutex))
            /\ g_stateMutex' = Holder(t, g_stateMutex)
            /\ UNCHANGED <<g_configMutex, txQueue, tx_result, timeouts>>
       [] OTHER ->
            /\ call' = Enter(t, NoCall)
            /\ UNCHANGED <<g_configMutex, g_stateMutex, txQueue, tx_result, timeouts>>

\* GET_System_Config: the wait for the mutex, then memcpy and xSemaphoreGive
GET_System_Config(t) ==
  /\ In(t, "GET_System_Config")
  /\ IF call[t].phase = "take"
     THEN /\ g_configMutex = NoTask
          /\ g_configMutex' = t
          /\ call' = [call EXCEPT ![t].phase = "held"]
          /\ UNCHANGED local_config
     ELSE /\ local_config' = [local_config EXCEPT ![call[t].dst] = g_systemConfig]
          /\ g_configMutex' = Give(t)
          /\ call' = Enter(t, NoCall)
  /\ UNCHANGED <<pc, tx_result, txQueue, timeouts, g_stateMutex, shared, Initialization_Status,
                 cameraMutex, inq, rx, local_status, cmdloc, imgloc, relayloc, telloc,
                 device, env, obs>>

Update_System_Config(t) ==
  /\ In(t, "Update_System_Config")
  /\ IF call[t].phase = "take"
     THEN /\ g_configMutex = NoTask
          /\ g_configMutex' = t
          /\ call' = [call EXCEPT ![t].phase = "held"]
          /\ UNCHANGED g_systemConfig
     ELSE /\ g_systemConfig' = local_config[call[t].src]
          /\ g_configMutex' = Give(t)
          /\ call' = Enter(t, NoCall)
  /\ UNCHANGED <<pc, tx_result, txQueue, timeouts, g_stateMutex, g_systemStatus, Initialization_Status,
                 cameraMutex, inq, rx, copies, cmdloc, imgloc, relayloc, telloc,
                 device, env, obs>>

GET_System_Status(t) ==
  /\ In(t, "GET_System_Status")
  /\ IF call[t].phase = "take"
     THEN /\ g_stateMutex = NoTask
          /\ g_stateMutex' = t
          /\ call' = [call EXCEPT ![t].phase = "held"]
          /\ UNCHANGED local_status
     ELSE /\ local_status' = [local_status EXCEPT ![t] = g_systemStatus]
          /\ g_stateMutex' = Give(t)
          /\ call' = Enter(t, NoCall)
  /\ UNCHANGED <<pc, tx_result, txQueue, timeouts, g_configMutex, shared, Initialization_Status,
                 cameraMutex, inq, rx, local_config, cmdloc, imgloc, relayloc, telloc,
                 device, env, obs>>

\* variant: the case of the relay flag falls through to the next case
SetStatusField_FallThrough(s, param, value) ==
  CASE param = "RELAY_ENABLED_STATUS" -> [s EXCEPT !.isRelayEnabled = value, !.isSsdvEnabled = value]
    [] param = "SSDV_ENABLED_STATUS" -> [s EXCEPT !.isSsdvEnabled = value]
    [] param = "BUZZER_ENABLED_STATUS" -> [s EXCEPT !.isBuzzerEnabled = value]
    [] param = "SSDV_TRANSMITTING_STATUS" -> [s EXCEPT !.isSsdvTransmitting = value]
    [] OTHER -> s

\* the switch of Update_System_Status: exactly one member is assigned
SetStatusField(s, param, value) ==
  CASE param = "RELAY_ENABLED_STATUS" -> [s EXCEPT !.isRelayEnabled = value]
    [] param = "SSDV_ENABLED_STATUS" -> [s EXCEPT !.isSsdvEnabled = value]
    [] param = "BUZZER_ENABLED_STATUS" -> [s EXCEPT !.isBuzzerEnabled = value]
    [] param = "SSDV_TRANSMITTING_STATUS" -> [s EXCEPT !.isSsdvTransmitting = value]
    [] OTHER -> s

Update_System_Status(t) ==
  /\ In(t, "Update_System_Status")
  /\ IF call[t].phase = "take"
     THEN /\ g_stateMutex = NoTask
          /\ g_stateMutex' = t
          /\ call' = [call EXCEPT ![t].phase = "held"]
          /\ UNCHANGED g_systemStatus
     ELSE /\ g_systemStatus' = SetStatusField(g_systemStatus, call[t].param, call[t].value)
          /\ g_stateMutex' = Give(t)
          /\ call' = Enter(t, NoCall)
  /\ UNCHANGED <<pc, tx_result, txQueue, timeouts, g_configMutex, g_systemConfig, Initialization_Status,
                 cameraMutex, inq, rx, copies, cmdloc, imgloc, relayloc, telloc,
                 device, env, obs>>

(* ------------------------------------------------------------------ *)
(* Serial line                                                        *)
(* ------------------------------------------------------------------ *)
\* the ground station sends one more frame; the bytes of a frame are in the
\* UART buffer together, and the line is idle between two frames
Serial_Arrive ==
  /\ device = "running"
  /\ env.frames > 0
  /\ serialRx = <<>>
  /\ \E f \in env.inputs : serialRx' = f
  /\ env' = [env EXCEPT !.frames = @ - 1]
  /\ UNCHANGED <<svc, shared, Initialization_Status, cameraMutex, inq, frame_buffer, copies,
                 cmdloc, imgloc, relayloc, telloc, device, obs>>

(* ------------------------------------------------------------------ *)
(* Data-Link Task                                                     *)
(* ------------------------------------------------------------------ *)
\* "if (xQueueReceive(txQueue, &txPacket, 10)) Serial.write(..)"
Datalink_Transmit ==
  /\ At("datalink", "dl_loop")
  /\ txQueue # <<>>
  /\ txQueue' = Tail(txQueue)
  /\ obs' = Written(obs, Head(txQueue))
  /\ UNCHANGED <<pc, call, tx_result, timeouts, g_configMutex, g_stateMutex, shared,
                 Initialization_Status, cameraMutex, inq, rx, copies, cmdloc, imgloc,
                 relayloc, telloc, device, env>>

\* a byte other than the newline: stored while frame_len < MAX_RX_BUFF_SIZE - 1,
\* otherwise frame_len = 0 and the byte is not stored
StoreByte(buf, c) == IF Len(buf) < MAX_RX_BUFF_SIZE - 1 THEN Append(buf, c) ELSE <<>>

RECURSIVE StoreRange(_, _, _, _)
\* the buffer after bytes[lo], .., bytes[hi] went through StoreByte in this order
StoreRange(buf, bytes, lo, hi) ==
  IF lo > hi THEN buf
  ELSE IF lo = hi THEN StoreByte(buf, bytes[lo])
  ELSE LET mid == (lo + hi) \div 2
           first == StoreRange(buf, bytes, lo, mid)
       IN \* the test only fixes the order of evaluation: first half, then second
          IF Len(first) >= 0 THEN StoreRange(first, bytes, mid + 1, hi) ELSE first

StoreBytes(buf, bytes) == StoreRange(buf, bytes, 1, Len(bytes))

HasNewline(bytes) == \E i \in 1..Len(bytes) : bytes[i] = "\n"
FirstNewline(bytes) == CHOOSE i \in 1..Len(bytes) : bytes[i] = "\n" /\ \A j \in 1..(i - 1) : bytes[j] # "\n"

\* strncmp(frame_buffer, p, 2) == 0, for a buffer of more than two bytes
HasPrefix(buf, c) == buf[1] = c /\ buf[2] = c
\* the string at &frame_buffer[2]
Payload(buf) == SubSeq(buf, 3, Len(buf))
\* xQueueSend(q, item, 50) to an inbound queue: the item is lost when the queue is full
Offer(q, item) == IF HasRoom(q, RxQueueLen) THEN Append(q, item) ELSE q

\* the frame as it was sent: its first two bytes and its length without the newline
RawFrame(line) == [head |-> SubSeq(line, 1, Min(2, Len(line))), len |-> Len(line)]

\* "while (Serial.available())": the bytes up to the next newline, and the
\* classification of the frame that newline completes
Datalink_Receive ==
  /\ At("datalink", "dl_loop")
  /\ serialRx # <<>>
  /\ IF ~HasNewline(serialRx)
     THEN /\ frame_buffer' = StoreBytes(frame_buffer, serialRx)
          /\ serialRx' = <<>>
          /\ Do("datalink", "dl_loop", NoCall)
          /\ UNCHANGED <<inq, obs>>
     ELSE \E line \in {SubSeq(serialRx, 1, FirstNewline(serialRx) - 1)} :
          \E buf \in {StoreBytes(frame_buffer, line)} :
          \E seen \in {[raw |-> RawFrame(line), toCmd |-> FALSE, toRelay |-> FALSE]} :
             /\ serialRx' = SubSeq(serialRx, Len(line) + 2, Len(serialRx))
             /\ IF Len(buf) > 2 /\ HasPrefix(buf, "@")
                THEN /\ cmdQueue' = Offer(cmdQueue, Payload(buf))
                     /\ frame_buffer' = <<>>
                     /\ obs' = [obs EXCEPT !.rx = [seen EXCEPT !.toCmd = TRUE]]
                     /\ Do("datalink", "dl_loop", NoCall)
                     /\ UNCHANGED relayQueue
                ELSE IF Len(buf) > 2 /\ HasPrefix(buf, "#")
                THEN /\ frame_buffer' = buf
                     /\ obs' = [obs EXCEPT !.rx = seen]
                     /\ Do("datalink", "dl_relay", GetStatus)
                     /\ UNCHANGED inq
                ELSE /\ frame_buffer' = <<>>
                     /\ obs' = [obs EXCEPT !.rx = seen]
                     /\ Do("datalink", "dl_loop", NoCall)
                     /\ UNCHANGED inq
  /\ UNCHANGED <<shared, Initialization_Status, cameraMutex, copies, cmdloc, imgloc,
                 relayloc, telloc, device, env>>

\* "if (local_status.isRelayEnabled && !local_status.isSsdvTransmitting)"
RelayAllowed(st) == st.isRelayEnabled /\ ~st.isSsdvTransmitting

\* the relay frame after GET_System_Status returned, and the reset of the buffer
Datalink_Relay ==
  /\ At("datalink", "dl_relay")
  /\ IF RelayAllowed(local_status["datalink"])
     THEN /\ relayQueue' = Offer(relayQueue, Payload(frame_buffer))
          /\ obs' = [obs EXCEPT !.rx.toRelay = TRUE]
     ELSE UNCHANGED <<relayQueue, obs>>
  /\ frame_buffer' = <<>>
  /\ Do("datalink", "dl_loop", NoCall)
  /\ UNCHANGED <<shared, Initialization_Status, cameraMutex, cmdQueue, serialRx, copies,
                 cmdloc, imgloc, relayloc, telloc, device, env>>

V_Datalink_Task == Datalink_Transmit \/ Datalink_Receive \/ Datalink_Relay

(* ------------------------------------------------------------------ *)
(* Command Task                                                       *)
(* ------------------------------------------------------------------ *)
W(w) == <<w>>

\* the three strtok_r calls of Process_Command; <<>> stands for NULL
Parse(item) ==
  LET tk == Tokenize(item, <<>>, <<>>)
  IN [type |-> IF Len(tk) >= 1 THEN tk[1] ELSE <<>>,
      target |-> IF Len(tk) >= 2 THEN tk[2] ELSE <<>>,
      value |-> IF Len(tk) >= 3 THEN tk[3] ELSE <<>>]

\* what the observations of one command start from
NewCmdObs(o, c) ==
  [o EXCEPT !.cmdLog = <<>>, !.cmdStart = g_systemConfig, !.busy = "none", !.reconfs = 0,
            !.getCam.setSince = @ \/ c.type = W("SET")]

\* "if (xQueueReceive(cmdQueue, cmd_buffer, 1000)) Process_Command(cmd_buffer)"
V_Command_Task ==
  /\ At("command", "cmd_wait")
  /\ cmdQueue # <<>>
  /\ cmdQueue' = Tail(cmdQueue)
  /\ cmd' = Parse(Head(cmdQueue))
  /\ obs' = NewCmdObs(obs, Parse(Head(cmdQueue)))
  /\ Do("command", "process", NoCall)
  /\ UNCHANGED <<shared, Initialization_Status, cameraMutex, relayQueue, rx, copies,
                 config_changed, reconf, camera, imgloc, relayloc, telloc, device, env>>

\* variant: a CTL command is handed to the SET handler
Dispatch_CtlAsSet(c) ==
  IF c.type = <<>> \/ c.target = <<>> THEN "CMD_NACK_FORMAT_ERROR"
  ELSE IF c.type = W("GET") THEN "GET"
  ELSE IF c.value = <<>> THEN "CMD_NACK_NO_VALUE"
  ELSE IF c.type \in {W("CTL"), W("SET")} THEN "SET"
  ELSE "CMD_NACK_INVALID_TYPE"

\* the branch Process_Command takes
Dispatch(c) ==
  IF c.type = <<>> \/ c.target = <<>> THEN "CMD_NACK_FORMAT_ERROR"
  ELSE IF c.type = W("GET") THEN "GET"
  ELSE IF c.value = <<>> THEN "CMD_NACK_NO_VALUE"
  ELSE IF c.type = W("CTL") THEN "CTL"
  ELSE IF c.type = W("SET") THEN "SET"
  ELSE "CMD_NACK_INVALID_TYPE"

\* variant: the Command Task goes on without submitting the status
Respond_Silent(next, code, has, info) == Do("command", next, NoCall)

\* Transmit_Status(code) or Transmit_Status(code, info) by the Command Task
Respond(next, code, has, info) == Do("command", next, SendText(StatusBody(code, has, info)))

cmdrest == <<shared, Initialization_Status, inq, rx, imgloc, relayloc, telloc, device>>

\* the branches of Process_Command that answer without calling a handler
Process_Command ==
  /\ At("command", "process")
  /\ Dispatch(cmd) \notin {"GET", "CTL", "SET"}
  /\ Respond("cmd_wait", Dispatch(cmd), FALSE, 0)
  /\ obs' = Logged(obs, Dispatch(cmd), FALSE, 0)
  /\ UNCHANGED <<cmdrest, cameraMutex, copies, cmdloc, env>>

BoolInfo(b) == IF b THEN 1 ELSE 0

\* the report of GET CAM, as read from the copy GET_System_Config filled
CamReport(cfg) == <<cfg.cameraImageSize, cfg.cameraImageQuality>>

\* a GET CAM report is ready: it becomes the last one, the last one the previous one
NoteCamReport(g, r) ==
  [n |-> Min(g.n + 1, 2), prev |-> g.last, last |-> r,
   setBetween |-> g.setSince, bootBetween |-> g.bootSince,
   setSince |-> FALSE, bootSince |-> FALSE]

Handle_GET_Command ==
  /\ \/ /\ At("command", "process")
        /\ Dispatch(cmd) = "GET"
        /\ IF cmd.target = W("RELAY")
           THEN Do("command", "get_relay", GetStatus) /\ UNCHANGED obs
           ELSE IF cmd.target = W("SSDV")
           THEN Do("command", "get_ssdv", GetStatus) /\ UNCHANGED obs
           ELSE IF cmd.target = W("CAM")
           THEN Do("command", "get_cam", GetConfig("command")) /\ UNCHANGED obs
           ELSE /\ Respond("cmd_wait", "CMD_NACK_INVALID_GET", FALSE, 0)
                /\ obs' = Logged(obs, "CMD_NACK_INVALID_GET", FALSE, 0)
     \/ /\ At("command", "get_relay")
        /\ LET v == BoolInfo(local_status["command"].isRelayEnabled)
           IN /\ Respond("cmd_wait", "CMD_ACK_GET_RELAY_STATUS", TRUE, v)
              /\ obs' = Logged(obs, "CMD_ACK_GET_RELAY_STATUS", TRUE, v)
     \/ /\ At("command", "get_ssdv")
        /\ Do("command", "get_ssdv1", GetConfig("command"))
        /\ UNCHANGED obs
     \/ /\ At("command", "get_ssdv1")
        /\ LET v == BoolInfo(local_status["command"].isSsdvEnabled)
           IN /\ Respond("get_ssdv2", "CMD_ACK_GET_SSDV_STATUS", TRUE, v)
              /\ obs' = Logged(obs, "CMD_ACK_GET_SSDV_STATUS", TRUE, v)
     \/ /\ At("command", "get_ssdv2")
        /\ LET v == local_config["command"].ssdvCycleTimeSec
           IN /\ Respond("get_ssdv3", "CMD_ACK_GET_SSDV_CYCLE", TRUE, v)
              /\ obs' = Logged(obs, "CMD_ACK_GET_SSDV_CYCLE", TRUE, v)
     \/ /\ At("command", "get_ssdv3")
        /\ LET v == local_config["command"].ssdvPacketType
           IN /\ Respond("get_ssdv4", "CMD_ACK_GET_SSDV_TYPE", TRUE, v)
              /\ obs' = Logged(obs, "CMD_ACK_GET_SSDV_TYPE", TRUE, v)
     \/ /\ At("command", "get_ssdv4")
        /\ LET v == local_config["command"].ssdvEncodingQuality
           IN /\ Respond("cmd_wait", "CMD_ACK_GET_SSDV_QUALITY", TRUE, v)
              /\ obs' = Logged(obs, "CMD_ACK_GET_SSDV_QUALITY", TRUE, v)
     \/ /\ At("command", "get_cam")
        /\ LET r == CamReport(local_config["command"])
           IN /\ Respond("get_cam2", "CMD_ACK_GET_CAM_SIZE", TRUE, r[1])
              /\ obs' = [Logged(obs, "CMD_ACK_GET_CAM_SIZE", TRUE, r[1])
                           EXCEPT !.getCam = NoteCamReport(@, r)]
     \/ /\ At("command", "get_cam2")
        /\ LET r == CamReport(local_config["command"])
           IN /\ Respond("cmd_wait", "CMD_ACK_GET_CAM_QUALITY", TRUE, r[2])
              /\ obs' = Logged(obs, "CMD_ACK_GET_CAM_QUALITY", TRUE, r[2])
  /\ UNCHANGED <<cmdrest, cameraMutex, copies, cmdloc, env>>

\* esp_restart(): the firmware stops; why is kept for the properties
Restarted(o, why) == [o EXCEPT !.restart = why]

\* the status flag a CTL RELAY / CTL SSDV command writes
CtlParam(c) == IF c.target = W("RELAY") THEN "RELAY_ENABLED_STATUS" ELSE "SSDV_ENABLED_STATUS"
CtlAck(c) ==
  IF c.target = W("RELAY")
  THEN (IF c.value = W("ON") THEN "CMD_ACK_RELAY_ON" ELSE "CMD_ACK_RELAY_OFF")
  ELSE (IF c.value = W("ON") THEN "CMD_ACK_SSDV_ON" ELSE "CMD_ACK_SSDV_OFF")

Handle_CTL_Command ==
  /\ \/ /\ At("command", "process")
        /\ Dispatch(cmd) = "CTL"
        /\ IF cmd.target = W("SYS") /\ cmd.value = W("REBOOT")
           THEN /\ Respond("ctl_reboot", "SYS_RESTARTING", FALSE, 0)
                /\ obs' = Logged(obs, "SYS_RESTARTING", FALSE, 0)
           ELSE IF cmd.target \in {W("RELAY"), W("SSDV")}
           THEN /\ IF cmd.value \in {W("ON"), W("OFF")}
                   THEN Do("command", "ctl_ack", UpdateStatus(CtlParam(cmd), cmd.value = W("ON")))
                   ELSE Do("command", "cmd_wait", NoCall)
                /\ UNCHANGED obs
           ELSE /\ Respond("cmd_wait", "CMD_NACK_INVALID_CTL", FALSE, 0)
                /\ obs' = Logged(obs, "CMD_NACK_INVALID_CTL", FALSE, 0)
        /\ UNCHANGED device
     \/ /\ At("command", "ctl_ack")
        /\ Respond("cmd_wait", CtlAck(cmd), FALSE, 0)
        /\ obs' = Logged(obs, CtlAck(cmd), FALSE, 0)
        /\ UNCHANGED device
     \/ /\ At("command", "ctl_reboot")
        /\ device' = "restarted"
        /\ obs' = Restarted(obs, "CTL")
        /\ UNCHANGED svc
  /\ UNCHANGED <<shared, Initialization_Status, inq, rx, imgloc, relayloc, telloc,
                 cameraMutex, copies, cmdloc, env>>

\* cam_modes[] of Handle_SET_Command
CamModes ==
  ("FHD" :> FRAMESIZE_FHD) @@ ("SXGA" :> FRAMESIZE_SXGA) @@ ("XGA" :> FRAMESIZE_XGA) @@
  ("VGA" :> FRAMESIZE_VGA) @@ ("QVGA" :> FRAMESIZE_QVGA)
IsCamMode(v) == Len(v) = 1 /\ v[1] \in DOMAIN CamModes

\* variant: the upper limit of the range check is off by one
QualityInRange_UpperOff(q) == ~(q < 5 \/ q > 21)

\* "requested_quality < 5 || requested_quality > 20" is false
QualityInRange(q) == ~(q < 5 \/ q > 20)
\* variant: the size threshold is one tier higher
QualityTooLow_NextTier(cfg, q) == cfg.cameraImageSize > FRAMESIZE_XGA /\ q < 10

\* "temp_config.cameraImageSize > FRAMESIZE_SVGA && requested_quality < 10"
QualityTooLow(cfg, q) == cfg.cameraImageSize > FRAMESIZE_SVGA /\ q < 10

\* variant: config_changed is never set
Verdict_NotChanged(cfg, changed, code, has, info) ==
  [config |-> cfg, changed |-> FALSE, code |-> code, has |-> has, info |-> info]

Verdict(cfg, changed, code, has, info) ==
  [config |-> cfg, changed |-> changed, code |-> code, has |-> has, info |-> info]

\* the CAM_SIZE / CAM_QUALITY branch: the candidate record, config_changed, the response
ValidateCam(cfg, c) ==
  IF c.target = W("CAM_SIZE")
  THEN IF IsCamMode(c.value)
       THEN Verdict([cfg EXCEPT !.cameraImageSize = CamModes[c.value[1]]], TRUE,
                    "CMD_ACK_CAM_SIZE", TRUE, CamModes[c.value[1]])
       ELSE Verdict(cfg, FALSE, "CMD_NACK_INVALID_TYPE", FALSE, 0)
  ELSE LET q == atoi(c.value)
       IN IF ~QualityInRange(q) THEN Verdict(cfg, FALSE, "CMD_NACK_SET_CAM_QUAL", FALSE, 0)
          ELSE IF QualityTooLow(cfg, q) THEN Verdict(cfg, FALSE, "CMD_NACK_SET_CAM_QUAL_LOW", FALSE, 0)
          ELSE Verdict([cfg EXCEPT !.cameraImageQuality = q], TRUE, "CMD_ACK_CAM_QUALITY", TRUE, q)

\* the SSDV_TYPE / SSDV_QUALITY / SSDV_CYCLE branch; code "none": nothing is sent
ValidateSsdv(cfg, c) ==
  IF c.target = W("SSDV_TYPE")
  THEN IF c.value = W("NORMAL")
       THEN Verdict([cfg EXCEPT !.ssdvPacketType = SSDV_TYPE_NORMAL], TRUE,
                    "CMD_ACK_SSDV_TYPE", TRUE, SSDV_TYPE_NORMAL)
       ELSE IF c.value = W("NOFEC")
       THEN Verdict([cfg EXCEPT !.ssdvPacketType = SSDV_TYPE_NOFEC], TRUE,
                    "CMD_ACK_SSDV_TYPE", TRUE, SSDV_TYPE_NOFEC)
       ELSE Verdict(cfg, FALSE, "none", FALSE, 0)
  ELSE IF c.target = W("SSDV_QUALITY")
  THEN LET q == atoi(c.value)
       IN IF q >= 0 /\ q <= 6
          THEN Verdict([cfg EXCEPT !.ssdvEncodingQuality = q], TRUE, "CMD_ACK_SSDV_QUALITY", TRUE, q)
          ELSE Verdict(cfg, FALSE, "CMD_NACK_SET_SSDV_QUAL", FALSE, 0)
  ELSE LET n == atoi(c.value)
       IN IF n >= 10 /\ n <= 100
          THEN Verdict([cfg EXCEPT !.ssdvCycleTimeSec = n], TRUE, "CMD_ACK_SSDV_CYCLE", TRUE, n)
          ELSE Verdict(cfg, FALSE, "CMD_NACK_SET_SSDV_CYCLE", FALSE, 0)

IsCamTarget(c) == c.target \in {W("CAM_SIZE"), W("CAM_QUALITY")}
IsSsdvTarget(c) == c.target \in {W("SSDV_TYPE"), W("SSDV_QUALITY"), W("SSDV_CYCLE")}

\* variant: the busy check is missing
SetRefused_Never(st) == FALSE

\* "if (local_status.isSsdvTransmitting)" of Handle_SET_Command
SetRefused(st) == st.isSsdvTransmitting

\* variant: the rollback forgets the image quality
RestoreDefault_SizeOnly(cfg) == [cfg EXCEPT !.cameraImageSize = FRAMESIZE_VGA]

\* the record written back after a failed reconfiguration
RestoreDefault(cfg) ==
  [cfg EXCEPT !.cameraImageSize = FRAMESIZE_VGA, !.cameraImageQuality = 5]

\* variant: a failed retry is reported like a failed first reconfiguration
ReconfCode_RetryAsFirst(ok, attempt) ==
  IF ok THEN (IF attempt = 1 THEN "CAM_RECONFIG_OK" ELSE "CAM_RESTORE_DEFAULT_OK")
  ELSE "CAM_RECONFIG_FAIL"

\* the response after Reconfigure_Camera returned, first call or retry
ReconfCode(ok, attempt) ==
  IF attempt = 1 THEN (IF ok THEN "CAM_RECONFIG_OK" ELSE "CAM_RECONFIG_FAIL")
  ELSE (IF ok THEN "CAM_RESTORE_DEFAULT_OK" ELSE "CAM_RESTORE_DEFAULT_FAIL")

Handle_SET_Command ==
  /\ \/ /\ At("command", "process")
        /\ Dispatch(cmd) = "SET"
        /\ Do("command", "set_check", GetStatus)
        /\ UNCHANGED <<cameraMutex, local_config, config_changed, reconf, device, obs>>
     \/ /\ At("command", "set_check")
        /\ LET seen == [obs EXCEPT !.busy = IF local_status["command"].isSsdvTransmitting
                                            THEN "busy" ELSE "free"]
           IN IF SetRefused(local_status["command"])
              THEN /\ Respond("cmd_wait", "CMD_NACK_SSDV_BUSY", FALSE, 0)
                   /\ obs' = Logged(seen, "CMD_NACK_SSDV_BUSY", FALSE, 0)
              ELSE IF IsCamTarget(cmd)
              THEN /\ Do("command", "set_cam", GetConfig("command"))
                   /\ obs' = seen
              ELSE IF IsSsdvTarget(cmd)
              THEN /\ Do("command", "set_ssdv", GetConfig("command"))
                   /\ obs' = seen
              ELSE /\ Respond("cmd_wait", "CMD_NACK_INVALID_SET", FALSE, 0)
                   /\ obs' = Logged(seen, "CMD_NACK_INVALID_SET", FALSE, 0)
        /\ UNCHANGED <<cameraMutex, local_config, config_changed, reconf, device>>
     \/ /\ At("command", "set_cam")
        /\ \E r \in {ValidateCam(local_config["command"], cmd)} :
              /\ local_config' = [local_config EXCEPT !["command"] = r.config]
              /\ config_changed' = r.changed
              /\ Respond(IF r.changed THEN "set_take" ELSE "cmd_wait", r.code, r.has, r.info)
              /\ obs' = Logged(obs, r.code, r.has, r.info)
        /\ UNCHANGED <<cameraMutex, reconf, device>>
     \/ /\ At("command", "set_take")
        /\ Free(cameraMutex)
        /\ cameraMutex' = "command"
        /\ reconf' = [attempt |-> 0]
        /\ Do("command", "set_reconf", UpdateConfig("command"))
        /\ UNCHANGED <<local_config, config_changed, device, obs>>
     \/ /\ \E ok \in BOOLEAN :
             /\ At("command", IF ok THEN "set_ok" ELSE "set_failed")
             /\ Respond(IF ok THEN "set_give" ELSE IF reconf.attempt = 1 THEN "restore" ELSE "fatal",
                        ReconfCode(ok, reconf.attempt), FALSE, 0)
             /\ obs' = Logged(obs, ReconfCode(ok, reconf.attempt), FALSE, 0)
        /\ UNCHANGED <<cameraMutex, local_config, config_changed, reconf, device>>
     \/ /\ At("command", "restore")
        /\ Do("command", "restore_update", GetConfig("command"))
        /\ UNCHANGED <<cameraMutex, local_config, config_changed, reconf, device, obs>>
     \/ /\ At("command", "restore_update")
        /\ local_config' = [local_config EXCEPT !["command"] = RestoreDefault(@)]
        /\ Do("command", "set_reconf", UpdateConfig("command"))
        /\ UNCHANGED <<cameraMutex, config_changed, reconf, device, obs>>
     \/ /\ At("command", "fatal")
        /\ Respond("fatal_restart", "SYS_RESTARTING", FALSE, 0)
        /\ obs' = Logged(obs, "SYS_RESTARTING", FALSE, 0)
        /\ UNCHANGED <<cameraMutex, local_config, config_changed, reconf, device>>
     \/ /\ At("command", "fatal_restart")
        /\ device' = "restarted"
        /\ obs' = Restarted(obs, "CAMERA")
        /\ UNCHANGED <<svc, cameraMutex, local_config, config_changed, reconf>>
     \/ /\ At("command", "set_give")
        /\ cameraMutex' = GiveCamera("command")
        /\ Do("command", "cmd_wait", NoCall)
        /\ UNCHANGED <<local_config, config_changed, reconf, device, obs>>
     \/ /\ At("command", "set_ssdv")
        /\ \E r \in {ValidateSsdv(local_config["command"], cmd)} :
              /\ local_config' = [local_config EXCEPT !["command"] = r.config]
              /\ config_changed' = r.changed
              /\ IF r.code = "none"
                 THEN Do("command", "cmd_wait", NoCall) /\ UNCHANGED obs
                 ELSE /\ Respond(IF r.changed THEN "set_ssdv_update" ELSE "cmd_wait",
                                 r.code, r.has, r.info)
                      /\ obs' = Logged(obs, r.code, r.has, r.info)
        /\ UNCHANGED <<cameraMutex, reconf, device>>
     \/ /\ At("command", "set_ssdv_update")
        /\ Do("command", "cmd_wait", UpdateConfig("command"))
        /\ UNCHANGED <<cameraMutex, local_config, config_changed, reconf, device, obs>>
  /\ UNCHANGED <<shared, Initialization_Status, inq, rx, imgloc, relayloc, telloc,
                 local_status, cmd, camera, env>>

\* Reconfigure_Camera: esp_camera_deinit(), then Setup_Camera and Camera_Calibrate
Reconfigure_Camera ==
  /\ At("command", "set_reconf")
  /\ camera' = NoCamera
  /\ reconf' = [attempt |-> reconf.attempt + 1]
  /\ Respond("setup_cfg", "CAM_INIT_START", FALSE, 0)
  /\ obs' = [Logged(obs, "CAM_INIT_START", FALSE, 0) EXCEPT !.reconfs = @ + 1]
  /\ UNCHANGED <<cmdrest, cameraMutex, copies, cmd, config_changed, env>>

\* esp_err_t of a failed esp_camera_init
ESP_FAIL == -1

Setup_Camera ==
  /\ \/ /\ At("command", "setup_cfg")
        /\ Do("command", "setup_init", GetConfig("setup"))
        /\ UNCHANGED <<camera, env, obs>>
     \/ /\ At("command", "setup_init")
        /\ \/ /\ camera' = [inited |-> TRUE,
                            frame_size |-> local_config["setup"].cameraImageSize,
                            jpeg_quality |-> local_config["setup"].cameraImageQuality]
              /\ Respond("calibrate", "CAM_INIT_OK", FALSE, 0)
              /\ obs' = Logged(obs, "CAM_INIT_OK", FALSE, 0)
              /\ UNCHANGED env
           \/ /\ env.camFaults > 0
              /\ env' = [env EXCEPT !.camFaults = @ - 1]
              /\ Respond("set_failed", "CAM_INIT_FAIL", TRUE, ESP_FAIL)
              /\ obs' = Logged(obs, "CAM_INIT_FAIL", TRUE, ESP_FAIL)
              /\ UNCHANGED camera
  /\ UNCHANGED <<cmdrest, cameraMutex, copies, cmd, config_changed, reconf>>

Camera_Calibrate ==
  /\ \/ /\ At("command", "calibrate")
        /\ Respond("calib_loop", "CAM_CALIBRATE_START", FALSE, 0)
        /\ obs' = Logged(obs, "CAM_CALIBRATE_START", FALSE, 0)
        /\ UNCHANGED env
     \/ /\ At("command", "calib_loop")
        /\ \/ /\ Respond("set_ok", "CAM_CALIBRATE_OK", FALSE, 0)
              /\ obs' = Logged(obs, "CAM_CALIBRATE_OK", FALSE, 0)
              /\ UNCHANGED env
           \/ /\ env.camFaults > 0
              /\ \E i \in 0..(CAM_CALIBRATE_TIMES - 1) :
                   env' = [env EXCEPT !.camFaults = @ - 1]
              /\ Respond("calib_signal", "CAM_CALIBRATE_FAIL", FALSE, 0)
              /\ obs' = Logged(obs, "CAM_CALIBRATE_FAIL", FALSE, 0)
     \/ /\ At("command", "calib_signal")
        /\ Do("command", "signal_error", GetStatus)
        /\ UNCHANGED <<env, obs>>
  /\ UNCHANGED <<cmdrest, cameraMutex, copies, cmdloc>>

\* where the caller of Signal_Error goes on: Camera_Calibrate returns false to
\* Reconfigure_Camera, the Image Task starts its loop again
SignalReturn(t) == IF t = "command" THEN "set_failed" ELSE "ssdv_loop"

\* Signal_Error after its GET_System_Status: the buzzer, then the flag
Signal_Error(t) ==
  /\ At(t, "signal_error")
  /\ Initialization_Status' = FALSE
  /\ Do(t, SignalReturn(t), NoCall)
  /\ UNCHANGED <<shared, cameraMutex, inq, rx, copies, cmdloc, imgloc, relayloc, telloc,
                 device, env, obs>>


(* ------------------------------------------------------------------ *)
(* Image Task                                                         *)
(* ------------------------------------------------------------------ *)
\* "ssdvImageId++" on a uint8_t
NextImageId(id) == (id + 1) % 256
\* "ssdvImageId - 1": the operand is promoted to int before the subtraction
PrevImageId(id) == id - 1

imgkeep == <<shared, Initialization_Status, inq, rx, local_status, cmdloc, relayloc, telloc,
             device>>
imgrest == <<imgkeep, obs>>

V_SSDV_Task ==
  /\ \/ /\ At("ssdv", "ssdv_loop")
        /\ Do("ssdv", "ssdv_check", GetStatus)
        /\ UNCHANGED <<cameraMutex, img, env, obs>>
     \/ /\ At("ssdv", "ssdv_check")
        /\ IF ~local_status["ssdv"].isSsdvEnabled
           THEN Do("ssdv", "ssdv_loop", NoCall) /\ UNCHANGED env
           ELSE /\ env.images > 0
                /\ env' = [env EXCEPT !.images = @ - 1]
                /\ Do("ssdv", "ssdv_start", UpdateStatus("SSDV_TRANSMITTING_STATUS", TRUE))
        /\ UNCHANGED <<cameraMutex, img, obs>>
     \/ /\ At("ssdv", "ssdv_start")
        /\ Do("ssdv", "ssdv_take", SendStatusInfo("SSDV_ENCODE_START", ssdvImageId))
        /\ UNCHANGED <<cameraMutex, img, env, obs>>
     \/ \* xSemaphoreTake(cameraMutex, portMAX_DELAY), then esp_camera_fb_get()
        /\ At("ssdv", "ssdv_take")
        /\ Free(cameraMutex)
        /\ cameraMutex' = "ssdv"
        /\ obs' = [obs EXCEPT !.heldOut = At("command", "set_take")]
        /\ \/ /\ \E l \in env.lens, e \in env.eois :
                   img' = [NoImg EXCEPT !.fb = TRUE, !.len = l, !.eoi = e]
              /\ Do("ssdv", "ssdv_encode", GetConfig("ssdv"))
              /\ UNCHANGED env
           \/ /\ env.imgFaults > 0
              /\ env' = [env EXCEPT !.imgFaults = @ - 1]
              /\ Do("ssdv", "ssdv_capture_fail", SendStatus("CAM_CAPTURE_FAIL"))
              /\ UNCHANGED img
     \/ /\ At("ssdv", "ssdv_capture_fail")
        /\ cameraMutex' = GiveCamera("ssdv")
        /\ Do("ssdv", "signal_error", GetStatus)
        /\ obs' = [obs EXCEPT !.heldOut = FALSE]
        /\ UNCHANGED <<img, env>>
  /\ UNCHANGED <<imgkeep, local_config, ssdvImageId>>

\* values of ssdv_enc_get_packet
SSDV_OK == 0
SSDV_FEED_ME == 1
SSDV_EOI == 2
SSDV_ERROR == -1

\* variant: the end of the frame is not checked
Read_Image_Buffer_Unchecked(numBytes, len, fbIndex) == numBytes

\* the number of bytes Read_Image_Buffer copies and returns
Read_Image_Buffer(numBytes, len, fbIndex) ==
  IF (fbIndex + numBytes) < len THEN numBytes ELSE len - fbIndex

\* the encoder can complete a packet, end the image or fail: it has input left
\* to work on, or the frame it was fed ended with the end-of-image marker
EncoderAnswers(i) == i.eoi \/ i.index < i.len

\* "retry_count >= 3" after a failed Transmit_Data of a packet
PacketGivenUp(n) == n >= TX_ATTEMPTS

Process_SSDV_Packet ==
  /\ \/ \* ssdv_enc_init(.., ssdvImageId++, ..)
        /\ At("ssdv", "ssdv_encode")
        /\ img' = [img EXCEPT !.id = ssdvImageId]
        /\ ssdvImageId' = NextImageId(ssdvImageId)
        /\ Do("ssdv", "enc_loop", NoCall)
        /\ UNCHANGED <<cameraMutex, env, obs>>
     \/ \* a packet was handed to Transmit_Data and Transmit_Data returned false
        /\ At("ssdv", "enc_loop")
        /\ img.sending /\ ~tx_result["ssdv"]
        /\ IF PacketGivenUp(img.retry_count + 1)
           THEN /\ Do("ssdv", "enc_loop", SendStatus("SSDV_TX_BUFFER_FULL"))
                /\ img' = [img EXCEPT !.sending = FALSE, !.retry_count = @ + 1,
                                      !.packet_count = @ + 1]
           ELSE /\ Do("ssdv", "enc_loop", SendData(SsdvPacket(img.id, img.packet_count), FALSE))
                /\ img' = [img EXCEPT !.retry_count = @ + 1]
        /\ UNCHANGED <<cameraMutex, ssdvImageId, env, obs>>
     \/ \* ssdv_enc_get_packet returned c, which ends the feed loop
        /\ At("ssdv", "enc_loop")
        /\ ~(img.sending /\ ~tx_result["ssdv"])
        /\ EncoderAnswers(img)
        /\ LET n == IF img.sending THEN img.packet_count + 1 ELSE img.packet_count
           IN \E c \in {SSDV_OK, SSDV_EOI, SSDV_ERROR} :
                \/ /\ c = SSDV_OK
                   /\ n < env.packets
                   /\ img' = [img EXCEPT !.c = c, !.sending = TRUE, !.retry_count = 0,
                                         !.packet_count = n]
                   /\ Do("ssdv", "enc_loop", SendData(SsdvPacket(img.id, n), FALSE))
                   /\ UNCHANGED <<cameraMutex, env, obs>>
                \/ \* Process_SSDV_Packet returns; esp_camera_fb_return, xSemaphoreGive
                   /\ c = SSDV_EOI
                   /\ img' = [img EXCEPT !.c = c, !.sending = FALSE, !.packet_count = n,
                                         !.fb = FALSE, !.len = 0, !.index = 0]
                   /\ cameraMutex' = GiveCamera("ssdv")
                   /\ obs' = [obs EXCEPT !.heldOut = FALSE]
                   /\ Do("ssdv", "ssdv_drain", NoCall)
                   /\ UNCHANGED env
                \/ /\ c = SSDV_ERROR
                   /\ env.imgFaults > 0
                   /\ env' = [env EXCEPT !.imgFaults = @ - 1]
                   /\ img' = [img EXCEPT !.c = c, !.sending = FALSE, !.packet_count = n]
                   /\ Do("ssdv", "enc_error", SendStatusInfo("SSDV_ENCODE_ERROR", c))
                   /\ UNCHANGED <<cameraMutex, obs>>
        /\ UNCHANGED ssdvImageId
     \/ /\ At("ssdv", "enc_error")
        /\ img' = [img EXCEPT !.fb = FALSE, !.len = 0, !.index = 0]
        /\ cameraMutex' = GiveCamera("ssdv")
        /\ obs' = [obs EXCEPT !.heldOut = FALSE]
        /\ Do("ssdv", "ssdv_drain", NoCall)
        /\ UNCHANGED <<ssdvImageId, env>>
  /\ UNCHANGED <<imgkeep, local_config>>

\* one pass of "while ((c = ssdv_enc_get_packet(&ssdv)) == SSDV_FEED_ME)":
\* the encoder asked for input; what Read_Image_Buffer returned is fed to it,
\* unless that is nothing
SSDV_Feed ==
  /\ At("ssdv", "enc_loop")
  /\ ~(img.sending /\ ~tx_result["ssdv"])
  /\ \E bytes_read_from_image \in {Read_Image_Buffer(SSDV_FEED_BUFF_SIZE, img.len, img.index)} :
       img' = [img EXCEPT !.c = SSDV_FEED_ME,
                          !.index = IF bytes_read_from_image > 0
                                    THEN @ + bytes_read_from_image ELSE @]
  /\ UNCHANGED <<imgkeep, local_config, ssdvImageId, cameraMutex, env, obs, pc, call,
                 txQueue, tx_result, timeouts, g_configMutex, g_stateMutex>>

\* the Image Task after the camera is released: drain, END, flag, cycle
SSDV_Finish ==
  /\ \/ \* "while (uxQueueMessagesWaiting(txQueue) > 0) vTaskDelay(200)"
        /\ At("ssdv", "ssdv_drain")
        /\ txQueue = <<>>
        /\ Do("ssdv", "ssdv_end", NoCall)
     \/ /\ At("ssdv", "ssdv_end")
        /\ Do("ssdv", "ssdv_clear", SendStatusInfo("SSDV_ENCODE_END", PrevImageId(ssdvImageId)))
     \/ /\ At("ssdv", "ssdv_clear")
        /\ Do("ssdv", "ssdv_cycle", UpdateStatus("SSDV_TRANSMITTING_STATUS", FALSE))
     \/ /\ At("ssdv", "ssdv_cycle")
        /\ Do("ssdv", "ssdv_sleep", GetConfig("ssdv"))
     \/ \* vTaskDelay(cycle_time_sec * 1000)
        /\ At("ssdv", "ssdv_sleep")
        /\ Do("ssdv", "ssdv_loop", NoCall)
  /\ UNCHANGED <<imgrest, local_config, cameraMutex, imgloc, env>>

(* ------------------------------------------------------------------ *)
(* Relay Task                                                         *)
(* ------------------------------------------------------------------ *)
\* variant: the comparison with the ceiling is inclusive
UnderCeiling_Inclusive(n) == n <= RELAY_CEILING

\* "relay_count_since_reset < 80"
UnderCeiling(n) == n < RELAY_CEILING

\* the frames of the current reset window: received, re-emitted, notices
NoWindow == [n |-> 0, emitted |-> 0, notices |-> 0, resets |-> 0]
NewWindow(w) == [NoWindow EXCEPT !.resets = Min(w.resets + 1, 1)]

relayrest == <<shared, Initialization_Status, cameraMutex, cmdQueue, rx, copies, cmdloc,
               imgloc, telloc, device>>

V_Relay_Task ==
  /\ \/ /\ At("relay", "relay_loop")
        /\ Do("relay", "relay_check", GetStatus)
        /\ UNCHANGED <<relayQueue, relayloc, env, obs>>
     \/ \* relaying is off: vTaskDelay(2000)
        /\ At("relay", "relay_check")
        /\ ~local_status["relay"].isRelayEnabled
        /\ Do("relay", "relay_loop", NoCall)
        /\ UNCHANGED <<relayQueue, relayloc, env, obs>>
     \/ \* the window test (120 s have passed or not), then xQueueReceive(relayQueue, .., 1000)
        /\ At("relay", "relay_check")
        /\ local_status["relay"].isRelayEnabled
        /\ \E expired \in BOOLEAN :
             /\ expired => env.resets > 0
             /\ env' = IF expired THEN [env EXCEPT !.resets = @ - 1] ELSE env
             /\ LET count == IF expired THEN 0 ELSE relay_count_since_reset
                    warned == IF expired THEN FALSE ELSE relay_limited_warned
                    w == IF expired THEN NewWindow(obs.win) ELSE obs.win
                IN IF relayQueue = <<>>
                   THEN /\ relay_count_since_reset' = count
                        /\ relay_limited_warned' = warned
                        /\ obs' = [obs EXCEPT !.win = w]
                        /\ Do("relay", "relay_loop", NoCall)
                        /\ UNCHANGED relayQueue
                   ELSE /\ relayQueue' = Tail(relayQueue)
                        /\ IF UnderCeiling(count)
                           THEN /\ Do("relay", "relay_loop", SendText(RelayBody(Head(relayQueue))))
                                /\ relay_count_since_reset' = count + 1
                                /\ relay_limited_warned' = warned
                                /\ obs' = [obs EXCEPT !.win = [w EXCEPT !.n = @ + 1,
                                                                         !.emitted = @ + 1]]
                           ELSE IF ~warned
                           THEN /\ Do("relay", "relay_loop", SendStatus("RELAY_RATE_LIMITED"))
                                /\ relay_count_since_reset' = count
                                /\ relay_limited_warned' = TRUE
                                /\ obs' = [obs EXCEPT !.win = [w EXCEPT !.n = @ + 1,
                                                                         !.notices = @ + 1]]
                           ELSE /\ Do("relay", "relay_loop", NoCall)
                                /\ relay_count_since_reset' = count
                                /\ relay_limited_warned' = warned
                                /\ obs' = [obs EXCEPT !.win = [w EXCEPT !.n = @ + 1]]
  /\ UNCHANGED relayrest

(* ------------------------------------------------------------------ *)
(* Telemetry Task                                                     *)
(* ------------------------------------------------------------------ *)
\* "while (retries < 3)" of V_Telemetry_Task
GPS_ROUNDS == 3

\* variant: the counter is a 15-bit value
NextCounter_Short(n) == (n + 1) % 32768

\* "Telemetry_Counter += 1" on a uint16_t
NextCounter(n) == (n + 1) % 65536

telrest == <<shared, Initialization_Status, cameraMutex, inq, rx, copies, cmdloc, imgloc,
             relayloc, device, obs>>

V_Telemetry_Task ==
  /\ \/ \* the GPS rounds, then Build_Telemetry_Frame; Get_Battery_Voltage may
        \* report ADC_SAMPLE_FAIL before the frame is formatted
        /\ At("telemetry", "tel_loop")
        /\ env.telemetry > 0
        /\ \E validity \in {"A", "V"}, fix \in env.fixes :
             /\ tel' = [retries |-> IF validity = "A" THEN fix ELSE GPS_ROUNDS, validity |-> validity]
             /\ \/ /\ env' = [env EXCEPT !.telemetry = @ - 1]
                   /\ Telemetry_Counter' = NextCounter(Telemetry_Counter)
                   /\ Do("telemetry", "tel_sleep",
                         SendText(TelemetryBody(Telemetry_Counter, validity)))
                \/ /\ env.adcFaults > 0
                   /\ env' = [env EXCEPT !.telemetry = @ - 1, !.adcFaults = @ - 1]
                   /\ Do("telemetry", "tel_frame", SendStatusInfo("ADC_SAMPLE_FAIL", ESP_FAIL))
                   /\ UNCHANGED Telemetry_Counter
     \/ /\ At("telemetry", "tel_frame")
        /\ Telemetry_Counter' = NextCounter(Telemetry_Counter)
        /\ Do("telemetry", "tel_sleep", SendText(TelemetryBody(Telemetry_Counter, tel.validity)))
        /\ UNCHANGED <<tel, env>>
     \/ \* vTaskDelay(20000 - 3000)
        /\ At("telemetry", "tel_sleep")
        /\ Do("telemetry", "tel_loop", NoCall)
        /\ UNCHANGED <<telloc, env>>
  /\ UNCHANGED telrest

(* ------------------------------------------------------------------ *)
(* loop task, restart, callers of the Link Arbiter                    *)
(* ------------------------------------------------------------------ *)
\* loop(): Update_System_Status(BUZZER_ENABLED_STATUS, false), then vTaskDelete(NULL)
loop ==
  /\ At("loop", "loop")
  /\ Do("loop", "deleted", UpdateStatus("BUZZER_ENABLED_STATUS", FALSE))
  /\ UNCHANGED <<shared, Initialization_Status, cameraMutex, inq, rx, copies, cmdloc, imgloc,
                 relayloc, telloc, device, env, obs>>

\* a task calls Transmit_Data(data, length, is_binary, send_to_front) with
\* arguments of its choice
Client_Call ==
  /\ At("client", "client")
  /\ env.requests > 0
  /\ \E len \in RequestLengths, front \in BOOLEAN, bin \in BOOLEAN :
       LET p == [data |-> [kind |-> "request", n |-> env.requests], length |-> len,
                 is_binary |-> bin]
       IN /\ env' = [env EXCEPT !.requests = @ - 1, !.request = SendData(p, front)]
          /\ Do("client", "client", SendData(p, front))
  /\ UNCHANGED <<shared, Initialization_Status, cameraMutex, inq, rx, copies, cmdloc, imgloc,
                 relayloc, telloc, device, obs>>

(* ------------------------------------------------------------------ *)
(* Initial state, restart                                             *)
(* ------------------------------------------------------------------ *)
StartPc ==
  [t \in Tasks |->
     CASE t = "datalink" -> "dl_loop"
       [] t = "command" -> "cmd_wait"
       [] t = "telemetry" -> "tel_loop"
       [] t = "ssdv" -> "ssdv_loop"
       [] t = "relay" -> "relay_loop"
       [] t = "loop" -> "loop"
       [] OTHER -> "client"]

ConfigSlots == {"command", "setup", "ssdv"}

NoGetCam ==
  [n |-> 0, prev |-> <<>>, last |-> <<>>, setBetween |-> FALSE, bootBetween |-> FALSE,
   setSince |-> FALSE, bootSince |-> FALSE]
NoRx == [raw |-> [head |-> <<>>, len |-> 0], toCmd |-> FALSE, toRelay |-> FALSE]
NoObs ==
  [cmdLog |-> <<>>, cmdStart |-> DefaultConfig, busy |-> "none", reconfs |-> 0,
   restart |-> "none", getCam |-> NoGetCam, rx |-> NoRx, win |-> NoWindow,
   heldOut |-> FALSE, wire |-> [on |-> FALSE, log |-> <<>>], whole |-> [config |-> {DefaultConfig}, status |-> {DefaultStatus}]]

\* the firmware when setup() has created the tasks: the static initialisers of
\* main.cpp, a camera initialised from the default configuration, empty queues;
\* st is the status record, e what the environment will do, o the observations,
\* n the number of queue waits that may expire, count the frames the Relay Task
\* has relayed in the current window
Started(e, st, o, n, count) ==
  /\ g_systemConfig = DefaultConfig
  /\ g_systemStatus = st
  /\ Initialization_Status = TRUE
  /\ g_configMutex = NoTask /\ g_stateMutex = NoTask /\ cameraMutex = NoTask
  /\ txQueue = <<>> /\ cmdQueue = <<>> /\ relayQueue = <<>>
  /\ serialRx = <<>> /\ frame_buffer = <<>>
  /\ pc = StartPc
  /\ call = [t \in Tasks |-> NoCall]
  /\ tx_result = [t \in Tasks |-> FALSE]
  /\ timeouts = n
  /\ local_status = [t \in Tasks |-> DefaultStatus]
  /\ local_config = [x \in ConfigSlots |-> DefaultConfig]
  /\ cmd = NoCmd
  /\ config_changed = FALSE
  /\ reconf = NoReconf
  /\ camera = [inited |-> TRUE, frame_size |-> DefaultConfig.cameraImageSize,
               jpeg_quality |-> DefaultConfig.cameraImageQuality]
  /\ img = NoImg
  /\ tel = NoTel
  /\ ssdvImageId = 0
  /\ relay_count_since_reset = count
  /\ relay_limited_warned = FALSE
  /\ Telemetry_Counter = 0
  /\ device = "running"
  /\ env = e
  /\ obs = o

\* the firmware right after setup()
Booted(e, st, o, n) == Started(e, st, o, n, 0)

\* esp_restart() was called: the firmware starts again from its initial state
Boot ==
  /\ device = "restarted"
  /\ env.boots > 0
  /\ g_systemConfig' = DefaultConfig
  /\ g_systemStatus' = DefaultStatus
  /\ Initialization_Status' = TRUE
  /\ g_configMutex' = NoTask /\ g_stateMutex' = NoTask /\ cameraMutex' = NoTask
  /\ txQueue' = <<>> /\ cmdQueue' = <<>> /\ relayQueue' = <<>>
  /\ serialRx' = <<>> /\ frame_buffer' = <<>>
  /\ pc' = StartPc
  /\ call' = [t \in Tasks |-> NoCall]
  /\ tx_result' = [t \in Tasks |-> FALSE]
  /\ UNCHANGED timeouts
  /\ local_status' = [t \in Tasks |-> DefaultStatus]
  /\ local_config' = [x \in ConfigSlots |-> DefaultConfig]
  /\ cmd' = NoCmd
  /\ config_changed' = FALSE
  /\ reconf' = NoReconf
  /\ camera' = [inited |-> TRUE, frame_size |-> DefaultConfig.cameraImageSize,
                jpeg_quality |-> DefaultConfig.cameraImageQuality]
  /\ img' = NoImg
  /\ tel' = NoTel
  /\ ssdvImageId' = 0
  /\ relay_count_since_reset' = 0
  /\ relay_limited_warned' = FALSE
  /\ Telemetry_Counter' = 0
  /\ device' = "running"
  /\ env' = [env EXCEPT !.boots = @ - 1]
  /\ obs' = [NoObs EXCEPT !.getCam = [obs.getCam EXCEPT !.bootSince = TRUE], !.wire = obs.wire]

(* ------------------------------------------------------------------ *)
(* Inbound frames                                                     *)
(* ------------------------------------------------------------------ *)
CommandFrame(type, target, value) == <<"@", "@", type, ",", target, ",">> \o value \o <<"\n">>
QueryFrame(type, target) == <<"@", "@", type, ",", target, "\n">>
RelayFrame(payload) == <<"#", "#">> \o payload \o <<"\n">>

\* what the environment does in a run: frames sent, faults of the camera
\* driver, of the capture or the encoder, of the ADC, images taken, telemetry
\* cycles, expiries of the relay window, restarts, calls of the client, packets
\* the encoder completes for one image
NoEnv ==
  [frames |-> 0, inputs |-> {}, camFaults |-> 0, images |-> 0, imgFaults |-> 0,
   adcFaults |-> 0, telemetry |-> 0, resets |-> 0, boots |-> 0, requests |-> 0,
   request |-> NoCall, packets |-> MaxPackets,
   lens |-> {SSDV_FEED_BUFF_SIZE}, eois |-> {TRUE}, fixes |-> {0},
   debug |-> DEBUG_MODE, gps |-> {TRUE}]

\* the shared services as called by task t
Service(t) ==
  \/ GET_System_Config(t)
  \/ Update_System_Config(t)
  \/ GET_System_Status(t)
  \/ Update_System_Status(t)
  \/ Transmit_Data(t)
  \/ Signal_Error(t)

SetActions == Handle_SET_Command \/ Reconfigure_Camera \/ Setup_Camera \/ Camera_Calibrate
ImageActions == V_SSDV_Task \/ Process_SSDV_Packet \/ SSDV_Finish

(* ------------------------------------------------------------------ *)
(* What the properties read from a state                              *)
(* ------------------------------------------------------------------ *)
\* the Command Task has handled a command and waits for the next one
CmdDone == At("command", "cmd_wait") /\ cmd # NoCmd
HasCode(c) == \E i \in 1..Len(obs.cmdLog) : obs.cmdLog[i].code = c
CountCode(c) == Cardinality({i \in 1..Len(obs.cmdLog) : obs.cmdLog[i].code = c})
\* some response with code a was submitted before some response with code b
CodeBefore(a, b) ==
  \E i, j \in 1..Len(obs.cmdLog) : i < j /\ obs.cmdLog[i].code = a /\ obs.cmdLog[j].code = b
HasResponse(c, info) ==
  \E i \in 1..Len(obs.cmdLog) : obs.cmdLog[i] = [code |-> c, has |-> TRUE, info |-> info]
IsSetOf(target) == cmd.type = W("SET") /\ cmd.target = W(target) /\ cmd.value # <<>>

(* ------------------------------------------------------------------ *)
(* SET commands: the Data-Link Task and the Command Task              *)
(* ------------------------------------------------------------------ *)
SetFrames == 2
SetFaults == 2
SetInputs ==
  {CommandFrame("SET", "CAM_QUALITY", <<"1", "2">>),
   CommandFrame("SET", "CAM_QUALITY", <<"4">>),
   CommandFrame("SET", "CAM_QUALITY", <<"2", "1">>),
   CommandFrame("SET", "SSDV_CYCLE", <<"3", "0">>)}

InitSet ==
  Booted([NoEnv EXCEPT !.frames = SetFrames, !.inputs = SetInputs, !.camFaults = SetFaults],
         DefaultStatus, NoObs, 0)

NextSet ==
  \/ Serial_Arrive
  \/ Datalink_Transmit
  \/ Datalink_Receive
  \/ V_Command_Task
  \/ SetActions
  \/ GET_System_Status("command")
  \/ GET_System_Config("command")
  \/ Update_System_Config("command")
  \/ Transmit_Data("command")
  \/ Signal_Error("command")

SpecSet == InitSet /\ [][NextSet]_vars

\* the SET CAM_QUALITY command just handled passed the busy check, with a stored
\* size of at most SVGA when it arrived
QualityHandled ==
  /\ CmdDone
  /\ IsSetOf("CAM_QUALITY")
  /\ obs.busy = "free"
  /\ obs.cmdStart.cameraImageSize <= FRAMESIZE_SVGA

\* the range check of C2 as the claim states it
InClaimedRange(v) == 5 <= v /\ v <= 20

\* C2 as stated: a SET CAM_QUALITY v handled while not busy, stored size at most
\* SVGA, is acknowledged with CMD_ACK_CAM_QUALITY carrying v and leaves the stored
\* quality equal to v when 5 <= v <= 20, and is otherwise answered with
\* CMD_NACK_SET_CAM_QUAL with the configuration unchanged.
C2_AsStated ==
  QualityHandled =>
    LET v == atoi(cmd.value)
    IN IF InClaimedRange(v)
       THEN HasResponse("CMD_ACK_CAM_QUALITY", v) /\ g_systemConfig.cameraImageQuality = v
       ELSE /\ obs.cmdLog = <<[code |-> "CMD_NACK_SET_CAM_QUAL", has |-> FALSE, info |-> 0]>>
            /\ g_systemConfig = obs.cmdStart

\* C2, amended: as stated, except that the stored quality equals v only when the
\* reconfiguration succeeded; when it failed and the retry with the defaults
\* succeeded, the stored size and quality are the defaults (VGA, 5).
C2_QualityStoredUnlessRolledBack ==
  QualityHandled =>
    LET v == atoi(cmd.value)
    IN IF InClaimedRange(v)
       THEN /\ HasResponse("CMD_ACK_CAM_QUALITY", v)
            /\ IF HasCode("CAM_RECONFIG_FAIL")
               THEN g_systemConfig = [obs.cmdStart EXCEPT !.cameraImageSize = FRAMESIZE_VGA,
                                                          !.cameraImageQuality = 5]
               ELSE g_systemConfig = [obs.cmdStart EXCEPT !.cameraImageQuality = v]
       ELSE /\ obs.cmdLog = <<[code |-> "CMD_NACK_SET_CAM_QUAL", has |-> FALSE, info |-> 0]>>
            /\ g_systemConfig = obs.cmdStart

\* an accepted quality of 12 was rolled back to the default
C2_Witness ==
  /\ QualityHandled
  /\ atoi(cmd.value) = 12
  /\ HasCode("CAM_RECONFIG_FAIL")
  /\ g_systemConfig.cameraImageQuality = 5

\* the responses of the fatal path, in the order they were submitted
FatalCodes == {"CAM_RECONFIG_FAIL", "CAM_RESTORE_DEFAULT_FAIL", "SYS_RESTARTING"}
FatalTrail == SelectSeq(obs.cmdLog, LAMBDA r : r.code \in FatalCodes)

\* C6: when the reconfiguration after an accepted camera SET fails and the
\* reconfiguration with the defaults fails too, the Command Task submits
\* CAM_RECONFIG_FAIL, CAM_RESTORE_DEFAULT_FAIL and then exactly one
\* SYS_RESTARTING, restarts the device, and never reconfigures a third time.
C6_FatalRestart ==
  /\ obs.reconfs <= 2
  /\ CountCode("SYS_RESTARTING") <= 1
  /\ HasCode("CAM_RESTORE_DEFAULT_FAIL") =>
       /\ pc["command"] \in {"fatal", "fatal_restart"}
       /\ obs.reconfs = 2
       /\ CodeBefore("CAM_RECONFIG_FAIL", "CAM_RESTORE_DEFAULT_FAIL")
  /\ (obs.reconfs = 2 /\ pc["command"] = "fatal") => HasCode("CAM_RESTORE_DEFAULT_FAIL")
  /\ pc["command"] = "fatal_restart" =>
       [i \in 1..3 |-> FatalTrail[i].code] =
         <<"CAM_RECONFIG_FAIL", "CAM_RESTORE_DEFAULT_FAIL", "SYS_RESTARTING">>
  /\ obs.restart = "CAMERA" <=> (device = "restarted" /\ pc["command"] = "fatal_restart")

\* both reconfigurations failed and the device restarted
C6_Witness ==
  /\ obs.restart = "CAMERA"
  /\ device = "restarted"
  /\ obs.reconfs = 2
  /\ Len(FatalTrail) = 3

\* the camera SET just handled failed to reconfigure and the retry succeeded
RolledBack == CmdDone /\ HasCode("CAM_RECONFIG_FAIL")

\* C7 as stated: after a failed reconfiguration whose retry with the defaults
\* succeeds, CAM_RECONFIG_FAIL and then CAM_RESTORE_DEFAULT_OK were submitted,
\* the stored configuration is the boot default record, the camera lock is free
\* and the Command Task goes on without a restart.
C7_AsStated ==
  RolledBack =>
    /\ CodeBefore("CAM_RECONFIG_FAIL", "CAM_RESTORE_DEFAULT_OK")
    /\ g_systemConfig = DefaultConfig
    /\ cameraMutex # "command"
    /\ device = "running"

\* C7, amended: as stated, except that only the image size and quality are the
\* boot defaults; codec variant, codec quality and cycle keep the values they had.
C7_CameraFieldsReverted ==
  RolledBack =>
    /\ CodeBefore("CAM_RECONFIG_FAIL", "CAM_RESTORE_DEFAULT_OK")
    /\ ~HasCode("SYS_RESTARTING")
    /\ g_systemConfig = [obs.cmdStart EXCEPT !.cameraImageSize = FRAMESIZE_VGA,
                                             !.cameraImageQuality = 5]
    /\ camera = [inited |-> TRUE, frame_size |-> FRAMESIZE_VGA, jpeg_quality |-> 5]
    /\ cameraMutex # "command"
    /\ device = "running"

\* a rollback that left a cycle time other than the default in place
C7_Witness ==
  /\ RolledBack
  /\ HasCode("CAM_RESTORE_DEFAULT_OK")
  /\ g_systemConfig.ssdvCycleTimeSec = 30
  /\ g_systemConfig.cameraImageQuality = 5

(* ------------------------------------------------------------------ *)
(* The three locks: Data-Link, Command and Image Task                 *)
(* ------------------------------------------------------------------ *)
LockFrames == 1
LockImages == 1
LockFaults == 1
LockInputs ==
  {CommandFrame("SET", "CAM_QUALITY", <<"1", "2">>),
   CommandFrame("SET", "SSDV_CYCLE", <<"3", "0">>),
   CommandFrame("SET", "BUZZER", <<"1">>)}

InitLocks ==
  Booted([NoEnv EXCEPT !.frames = LockFrames, !.inputs = LockInputs, !.images = LockImages,
                       !.camFaults = LockFaults, !.imgFaults = LockFaults],
         DefaultStatus, NoObs, 0)

NextLocks ==
  \/ Serial_Arrive
  \/ Datalink_Transmit
  \/ Datalink_Receive
  \/ V_Command_Task
  \/ SetActions
  \/ ImageActions
  \/ \E t \in {"command", "ssdv"} : Service(t)

SpecLocks == InitLocks /\ [][NextLocks]_vars

\* C1: a SET command handled on a status snapshot with image transmission in
\* progress leaves SystemConfig unchanged, gets exactly one response, the busy
\* nack, and neither takes the camera lock nor reconfigures the camera.
C1_BusyRefused ==
  (cmd.type = W("SET") /\ obs.busy = "busy") =>
    /\ g_systemConfig = obs.cmdStart
    /\ obs.cmdLog = <<[code |-> "CMD_NACK_SSDV_BUSY", has |-> FALSE, info |-> 0]>>
    /\ cameraMutex # "command"
    /\ obs.reconfs = 0
    /\ pc["command"] = "cmd_wait"

\* a SET CAM_QUALITY was refused while the Image Task was sending an image
C1_Witness ==
  /\ CmdDone
  /\ IsSetOf("CAM_QUALITY")
  /\ obs.busy = "busy"
  /\ HasCode("CMD_NACK_SSDV_BUSY")
  /\ g_systemStatus.isSsdvTransmitting

(* ------------------------------------------------------------------ *)
(* The four tasks that take locks: Data-Link, Command, Image, Relay    *)
(* ------------------------------------------------------------------ *)
TaskFrames == 1
TaskImages == 1
TaskFaults == 1
TaskInputs == {CommandFrame("SET", "CAM_QUALITY", <<"1", "2">>), RelayFrame(<<"X">>)}
LockTasks == {"datalink", "command", "ssdv", "relay"}

InitTasks ==
  Booted([NoEnv EXCEPT !.frames = TaskFrames, !.inputs = TaskInputs, !.images = TaskImages,
                       !.imgFaults = TaskFaults],
         DefaultStatus, NoObs, 0)

NextTasks ==
  \/ Serial_Arrive
  \/ V_Datalink_Task
  \/ V_Command_Task
  \/ SetActions
  \/ ImageActions
  \/ V_Relay_Task
  \/ \E t \in LockTasks : Service(t)

SpecTasks == InitTasks /\ [][NextTasks]_vars

\* the locks task t holds
LocksHeld(t) ==
  {l \in {"config", "status", "camera"} :
     \/ l = "config" /\ g_configMutex = t
     \/ l = "status" /\ g_stateMutex = t
     \/ l = "camera" /\ cameraMutex = t}

\* the lock task t is blocked on in xSemaphoreTake, or "none"
WaitsOn(t) ==
  IF call[t].proc \in {"GET_System_Config", "Update_System_Config"} /\ call[t].phase = "take"
  THEN "config"
  ELSE IF call[t].proc \in {"GET_System_Status", "Update_System_Status"} /\ call[t].phase = "take"
  THEN "status"
  ELSE IF call[t] = NoCall /\ pc[t] \in {"set_take", "ssdv_take"}
  THEN "camera"
  ELSE "none"

HolderOf(l) ==
  CASE l = "config" -> g_configMutex
    [] l = "status" -> g_stateMutex
    [] l = "camera" -> cameraMutex
    [] OTHER -> NoTask

\* the task that holds the lock t is blocked on, NoTask when t is not blocked
Blocker(t) == HolderOf(WaitsOn(t))

\* a set of tasks each blocked on a lock that another task of the set holds
WaitCycle == \E S \in SUBSET Tasks : S # {} /\ \A t \in S : Blocker(t) \in S

ImageDone ==
  /\ pc["ssdv"] = "enc_loop" /\ pc'["ssdv"] = "ssdv_drain"
  /\ cameraMutex = "ssdv" /\ cameraMutex' = NoTask
  /\ img'.packet_count > 0

\* C11 as stated, for the wait it names: the Command Task handling a camera SET
\* does not stay blocked in xSemaphoreTake(cameraMutex, portMAX_DELAY) from the
\* capture of an image to the end of its encode/submit loop.
C11_AsStated == [][ImageDone => ~obs.heldOut]_vars

(* ------------------------------------------------------------------ *)
(* The same four tasks under the scheduler's fairness                  *)
(* ------------------------------------------------------------------ *)
LiveFrames == 1
LiveImages == 1
LiveFaults == 1

\* one frame from the ground while an image is taken, or an image whose capture
\* may fail
InitLive ==
  \/ Booted([NoEnv EXCEPT !.frames = LiveFrames, !.inputs = TaskInputs, !.images = LiveImages],
            DefaultStatus, NoObs, 0)
  \/ Booted([NoEnv EXCEPT !.images = LiveImages, !.imgFaults = LiveFaults],
            DefaultStatus, NoObs, 0)

\* every task that can run does run, and a task blocked in xSemaphoreTake or
\* xQueueSend is woken when the mutex is given or a slot is free
FairTasks ==
  /\ WF_vars(V_Datalink_Task)
  /\ WF_vars(V_Command_Task)
  /\ WF_vars(SetActions)
  /\ WF_vars(ImageActions)
  /\ WF_vars(V_Relay_Task)
  /\ \A t \in LockTasks : SF_vars(Service(t))

SpecLive == InitLive /\ [][NextTasks]_vars /\ FairTasks

\* task t is at the top of its loop, in no call
Idle(t) == call[t] = NoCall /\ pc[t] = StartPc[t]

GetFrames == 4
GetBoots == 1
GetInputs ==
  {QueryFrame("GET", "CAM"),
   CommandFrame("SET", "CAM_QUALITY", <<"1", "2">>),
   CommandFrame("CTL", "SYS", <<"REBOOT">>),
   CommandFrame("CTL", "CAM_QUALITY", <<"9">>)}

InitGet ==
  Booted([NoEnv EXCEPT !.frames = GetFrames, !.inputs = GetInputs, !.boots = GetBoots],
         DefaultStatus, NoObs, 0)

NextGet ==
  \/ Serial_Arrive
  \/ Datalink_Transmit
  \/ Datalink_Receive
  \/ V_Command_Task
  \/ Handle_GET_Command
  \/ Handle_CTL_Command
  \/ SetActions
  \/ GET_System_Status("command")
  \/ GET_System_Config("command")
  \/ Update_System_Config("command")
  \/ Transmit_Data("command")
  \/ Boot

SpecGet == InitGet /\ [][NextGet]_vars

\* two GET CAM reports were made, the second after the first
TwoReports == obs.getCam.n >= 2

\* C8 as stated: two consecutive GET CAM commands with no SET command handled
\* between them report the same image size and image quality.
C8_AsStated == (TwoReports /\ ~obs.getCam.setBetween) => obs.getCam.prev = obs.getCam.last

\* C8, amended: two consecutive GET CAM commands with neither a SET command nor
\* a restart of the device between them report the same size and quality.
C8_SameReportWithoutSetOrRestart ==
  (TwoReports /\ ~obs.getCam.setBetween /\ ~obs.getCam.bootBetween) =>
    obs.getCam.prev = obs.getCam.last

\* two reports of a quality of 12 with other commands, but no SET, between them
C8_Witness ==
  /\ TwoReports
  /\ ~obs.getCam.setBetween /\ ~obs.getCam.bootBetween
  /\ obs.getCam.last = <<FRAMESIZE_VGA, 12>>
  /\ HasCode("CMD_ACK_GET_CAM_QUALITY")

(* ------------------------------------------------------------------ *)
(* Relaying: the Data-Link Task and the Relay Task                    *)
(* ------------------------------------------------------------------ *)
RelayFrames == 4
RelayResets == 1
RelayInputs == {RelayFrame(<<"X">>)}
\* frames already relayed in the window when the run starts: none (right after
\* setup), or two less than the ceiling
RelayStarts == {0, RELAY_CEILING - 2}

InitRelay ==
  \E k \in RelayStarts :
    Started([NoEnv EXCEPT !.frames = RelayFrames, !.inputs = RelayInputs, !.resets = RelayResets],
            DefaultStatus, [NoObs EXCEPT !.win = [NoWindow EXCEPT !.n = k, !.emitted = k]], 0, k)

NextRelay ==
  \/ Serial_Arrive
  \/ V_Datalink_Task
  \/ V_Relay_Task
  \/ \E t \in {"datalink", "relay"} : GET_System_Status(t)
  \/ Transmit_Data("relay")

SpecRelay == InitRelay /\ [][NextRelay]_vars

\* C3: of the n frames the Relay Task has taken from the relay queue since the
\* last reset of its counter, min(n, 80) were submitted as "##RELAY," text
\* frames, one RELAY_RATE_LIMITED notice was submitted if n > 80 and none
\* otherwise, and the first frame after a reset is submitted again.
C3_RelayWindow ==
  /\ obs.win.emitted = Min(obs.win.n, RELAY_CEILING)
  /\ obs.win.notices = (IF obs.win.n > RELAY_CEILING THEN 1 ELSE 0)
  /\ relay_count_since_reset = obs.win.emitted
  /\ relay_limited_warned <=> obs.win.notices = 1
  /\ (obs.win.resets > 0 /\ obs.win.n > 0) => obs.win.emitted > 0

\* 82 frames in one window: 80 submitted, one notice, the 82nd dropped silently
C3_Witness ==
  /\ obs.win.n = RELAY_CEILING + 2
  /\ obs.win.emitted = RELAY_CEILING
  /\ obs.win.notices = 1

(* ------------------------------------------------------------------ *)
(* Link Arbiter: a caller of Transmit_Data and the Data-Link Task      *)
(* ------------------------------------------------------------------ *)
TxRequests == 4
TxTimeouts == 3

InitTx == Booted([NoEnv EXCEPT !.requests = TxRequests], DefaultStatus, NoObs, TxTimeouts)

NextTx ==
  \/ Client_Call
  \/ Transmit_Data("client")
  \/ Datalink_Transmit

SpecTx == InitTx /\ [][NextTx]_vars

\* the step ends an enqueue attempt of the caller (its xQueueSend returned): the
\* first one of a new submission, or a later one of the submission in progress
IsAttempt ==
  IF env'.requests # env.requests
  THEN call'["client"] # env'.request
  ELSE call'["client"] # call["client"]
\* the submission the attempt belongs to, with the number of failed attempts so far
Submission == IF env'.requests # env.requests THEN env'.request ELSE call["client"]
Returns(r) == call'["client"] = NoCall /\ tx_result'["client"] = r

\* C4: a submission through Transmit_Data makes at most 3 enqueue attempts; an
\* attempt that finds a free slot enqueues exactly one copy of the packet and
\* returns success; one that finds the queue full enqueues nothing, and the
\* third such attempt returns failure; a packet longer than 512 bytes is
\* refused with failure and never enqueued.
C4_AttemptOutcome ==
  IsAttempt =>
    LET c == Submission
    IN /\ c.i < 3
       /\ IF c.packet.length > 512
          THEN Returns(FALSE) /\ txQueue' = txQueue
          ELSE IF Len(txQueue) < TxQueueLen
          THEN /\ Returns(TRUE)
               /\ txQueue' = (IF c.front THEN <<c.packet>> \o txQueue ELSE txQueue \o <<c.packet>>)
          ELSE /\ txQueue' = txQueue
               /\ IF c.i = 2 THEN Returns(FALSE)
                  ELSE call'["client"] = [c EXCEPT !.i = c.i + 1]

C4_TransmitAttempts == [][C4_AttemptOutcome]_vars

\* a submission of a packet of legal length found the queue full three times
\* and returned failure; the queue holds the two packets submitted before it
C4_Witness ==
  /\ call["client"] = NoCall
  /\ env.requests = TxRequests - 3
  /\ env.request.packet.length <= MAX_TX_BUFF_SIZE
  /\ ~tx_result["client"]
  /\ timeouts = 0
  /\ Len(txQueue) = TxQueueLen
  /\ \A k \in 1..Len(txQueue) : txQueue[k] # env.request.packet

(* ------------------------------------------------------------------ *)
(* Frame classification: the Data-Link Task                           *)
(* ------------------------------------------------------------------ *)
RxFrames == 2
\* a frame of 515 bytes: "@@", 510 more bytes, then "##X"
LongFrame == <<"@", "@">> \o [k \in 1..(MAX_RX_BUFF_SIZE - 2) |-> "A"] \o <<"#", "#", "X", "\n">>
RxInputs ==
  {CommandFrame("CTL", "RELAY", <<"ON">>),
   RelayFrame(<<"X">>),
   <<"$", "$", "X", "\n">>,
   <<"@", "#", "X", "\n">>,
   <<"@", "@", "\n">>,
   <<"#", "\n">>,
   <<"\n">>,
   LongFrame}
\* the status record as the Command Task and the Image Task may have left it
RxStatuses ==
  {[DefaultStatus EXCEPT !.isRelayEnabled = r, !.isSsdvTransmitting = x] : r, x \in BOOLEAN}

InitRx ==
  \E st \in RxStatuses :
    Booted([NoEnv EXCEPT !.frames = RxFrames, !.inputs = RxInputs], st, NoObs, 0)

NextRx ==
  \/ Serial_Arrive
  \/ Datalink_Receive
  \/ Datalink_Relay
  \/ GET_System_Status("datalink")

SpecRx == InitRx /\ [][NextRx]_vars

\* the Data-Link Task is done with the last frame it read
Classified == At("datalink", "dl_loop") /\ obs.rx # NoRx

\* the frame fits the frame buffer
Fits(f) == f.raw.len < MAX_RX_BUFF_SIZE

\* C5: a complete frame of more than 2 bytes that starts with "@@" is offered
\* to the command queue only; one that starts with "##" is offered to the relay
\* queue exactly when relaying is enabled and no image is being sent, and never
\* to the command queue; no frame is offered to both queues, and a frame with
\* another prefix or of at most 2 bytes is offered to neither.  (That a frame
\* is offered at all is required only of a frame that fits the buffer.)
C5_AsStated ==
  Classified =>
    LET f == obs.rx
    IN /\ ~(f.toCmd /\ f.toRelay)
       /\ IF f.raw.len > 2 /\ f.raw.head = <<"@", "@">>
          THEN ~f.toRelay /\ (Fits(f) => f.toCmd)
          ELSE IF f.raw.len > 2 /\ f.raw.head = <<"#", "#">>
          THEN /\ ~f.toCmd
               /\ f.toRelay => RelayAllowed(g_systemStatus)
               /\ (Fits(f) /\ RelayAllowed(g_systemStatus)) => f.toRelay
          ELSE ~f.toCmd /\ ~f.toRelay

(* ------------------------------------------------------------------ *)
(* The four accessors of the records, with memcpy one member at a time *)
(* ------------------------------------------------------------------ *)
CopyCalls == 3
CopyTasks == {"command", "ssdv", "relay"}

\* the members of SystemConfig_t and of SystemStatus_t, in the order of the structs
ConfigFields ==
  <<"cameraImageSize", "cameraImageQuality", "ssdvPacketType", "ssdvEncodingQuality",
    "ssdvCycleTimeSec">>
StatusFields == <<"isRelayEnabled", "isSsdvEnabled", "isBuzzerEnabled", "isSsdvTransmitting">>

\* records the Command Task writes: the defaults (the rollback) and a SET of two members
CopyConfigs ==
  {DefaultConfig,
   [DefaultConfig EXCEPT !.cameraImageSize = FRAMESIZE_SVGA, !.cameraImageQuality = 12]}

CopyOp(p, v, param, value) ==
  [proc |-> p, phase |-> "take", k |-> 0, val |-> v, param |-> param, value |-> value]

\* the accessor calls of each task: the Command Task reads and writes both
\* records, the Image Task reads both and sets its flag, the Relay Task reads
\* the status
CopyOps(t) ==
  CASE t = "command" ->
         {CopyOp("GET_System_Config", DefaultConfig, "none", FALSE),
          CopyOp("GET_System_Status", DefaultConfig, "none", FALSE)}
         \cup {CopyOp("Update_System_Config", v, "none", FALSE) : v \in CopyConfigs}
         \cup {CopyOp("Update_System_Status", DefaultConfig, "RELAY_ENABLED_STATUS", b) :
                 b \in BOOLEAN}
    [] t = "ssdv" ->
         {CopyOp("GET_System_Config", DefaultConfig, "none", FALSE),
          CopyOp("GET_System_Status", DefaultConfig, "none", FALSE)}
         \cup {CopyOp("Update_System_Status", DefaultConfig, "SSDV_TRANSMITTING_STATUS", b) :
                 b \in BOOLEAN}
    [] OTHER -> {CopyOp("GET_System_Status", DefaultConfig, "none", FALSE)}

OnConfig(p) == p \in {"GET_System_Config", "Update_System_Config"}

copyrest == <<pc, tx_result, txQueue, timeouts, Initialization_Status, cameraMutex, inq, rx,
              cmdloc, imgloc, relayloc, telloc, device>>

\* a task calls one of the accessors
Copy_Call(t) ==
  /\ device = "running"
  /\ call[t] = NoCall
  /\ env.requests > 0
  /\ \E op \in CopyOps(t) : call' = [call EXCEPT ![t] = op]
  /\ env' = [env EXCEPT !.requests = @ - 1]
  /\ UNCHANGED <<copyrest, g_configMutex, g_stateMutex, shared, copies, obs>>

\* "if (xSemaphoreTake(.., portMAX_DELAY) == pdTRUE)"
Copy_Take(t) ==
  /\ device = "running"
  /\ call[t] # NoCall /\ call[t].phase = "take"
  /\ IF OnConfig(call[t].proc)
     THEN Free(g_configMutex) /\ g_configMutex' = t /\ UNCHANGED g_stateMutex
     ELSE Free(g_stateMutex) /\ g_stateMutex' = t /\ UNCHANGED g_configMutex
  /\ call' = [call EXCEPT ![t].phase = "copy"]
  /\ UNCHANGED <<copyrest, shared, copies, env, obs>>

\* the call after one more member is copied
Copied(c, n) == [c EXCEPT !.k = @ + 1, !.phase = IF c.k + 1 = n THEN "give" ELSE "copy"]

\* memcpy moves the next member; Update_System_Status assigns the member of its switch
Copy_Step(t) ==
  /\ device = "running"
  /\ call[t] # NoCall /\ call[t].phase = "copy"
  /\ LET c == call[t]
     IN CASE c.proc = "GET_System_Config" ->
               /\ local_config' = [local_config EXCEPT ![t][ConfigFields[c.k + 1]] =
                                     g_systemConfig[ConfigFields[c.k + 1]]]
               /\ call' = [call EXCEPT ![t] = Copied(c, Len(ConfigFields))]
               /\ UNCHANGED <<shared, local_status, obs>>
          [] c.proc = "Update_System_Config" ->
               /\ g_systemConfig' = [g_systemConfig EXCEPT ![ConfigFields[c.k + 1]] =
                                       c.val[ConfigFields[c.k + 1]]]
               /\ call' = [call EXCEPT ![t] = Copied(c, Len(ConfigFields))]
               /\ obs' = IF c.k + 1 = Len(ConfigFields)
                         THEN [obs EXCEPT !.whole.config = @ \cup {c.val}] ELSE obs
               /\ UNCHANGED <<g_systemStatus, copies>>
          [] c.proc = "GET_System_Status" ->
               /\ local_status' = [local_status EXCEPT ![t][StatusFields[c.k + 1]] =
                                     g_systemStatus[StatusFields[c.k + 1]]]
               /\ call' = [call EXCEPT ![t] = Copied(c, Len(StatusFields))]
               /\ UNCHANGED <<shared, local_config, obs>>
          [] OTHER ->
               /\ g_systemStatus' = SetStatusField(g_systemStatus, c.param, c.value)
               /\ call' = [call EXCEPT ![t].phase = "give"]
               /\ obs' = [obs EXCEPT !.whole.status =
                                       @ \cup {SetStatusField(g_systemStatus, c.param, c.value)}]
               /\ UNCHANGED <<g_systemConfig, copies>>
  /\ UNCHANGED <<copyrest, g_configMutex, g_stateMutex, env>>

\* xSemaphoreGive and the return
Copy_Give(t) ==
  /\ device = "running"
  /\ call[t] # NoCall /\ call[t].phase = "give"
  /\ IF OnConfig(call[t].proc)
     THEN g_configMutex' = Give(t) /\ UNCHANGED g_stateMutex
     ELSE g_stateMutex' = Give(t) /\ UNCHANGED g_configMutex
  /\ call' = [call EXCEPT ![t] = NoCall]
  /\ UNCHANGED <<copyrest, shared, copies, env, obs>>

InitCopy == Booted([NoEnv EXCEPT !.requests = CopyCalls], DefaultStatus, NoObs, 0)

NextCopy ==
  \/ \E t \in CopyTasks : Copy_Call(t)
  \/ \E t \in CopyTasks : Copy_Take(t)
  \/ \E t \in CopyTasks : Copy_Step(t)
  \/ \E t \in CopyTasks : Copy_Give(t)

SpecCopy == InitCopy /\ [][NextCopy]_vars

\* task t returns from GET_System_Config or GET_System_Status
CopyReturned(t) ==
  /\ call[t] # NoCall /\ call[t].phase = "give" /\ call'[t] = NoCall
  /\ call[t].proc \in {"GET_System_Config", "GET_System_Status"}

\* C12: the copy a GET returns is the record as it is at the return, and that
\* is a whole record: the boot value or the value a completed update left, never
\* members of two of them.
C12_WholeCopy ==
  [][\A t \in CopyTasks :
       CopyReturned(t) =>
         IF call[t].proc = "GET_System_Config"
         THEN local_config[t] = g_systemConfig /\ local_config[t] \in obs.whole.config
         ELSE local_status[t] = g_systemStatus /\ local_status[t] \in obs.whole.status]_vars

\* the Image Task is in the middle of the memcpy of GET_System_Config, the
\* record is not the boot value, and the Command Task waits to write it
C12_Witness ==
  /\ call["ssdv"] # NoCall /\ call["ssdv"].proc = "GET_System_Config"
  /\ call["ssdv"].phase = "copy" /\ call["ssdv"].k = 2
  /\ g_systemConfig # DefaultConfig
  /\ call["command"] # NoCall /\ call["command"].proc = "Update_System_Config"
  /\ call["command"].phase = "take"
  /\ g_configMutex = "ssdv"

(* ------------------------------------------------------------------ *)
(* The five tasks together                                             *)
(* ------------------------------------------------------------------ *)
FiveFrames == 1
FiveImages == 1
FiveCycles == 1
FiveTasks == {"datalink", "command", "telemetry", "ssdv", "relay"}

FiveInputs ==
  {QueryFrame("GET", "CAM"),
   CommandFrame("CTL", "RELAY", <<"OFF">>),
   CommandFrame("SET", "SSDV_CYCLE", <<"3", "0">>),
   RelayFrame(<<"X">>)}

InitFive ==
  Booted([NoEnv EXCEPT !.frames = FiveFrames, !.inputs = FiveInputs, !.images = FiveImages,
                       !.telemetry = FiveCycles],
         DefaultStatus, NoObs, 0)

NextFive ==
  \/ Serial_Arrive
  \/ V_Datalink_Task
  \/ V_Command_Task
  \/ Handle_GET_Command
  \/ Handle_CTL_Command
  \/ Handle_SET_Command
  \/ ImageActions
  \/ V_Relay_Task
  \/ V_Telemetry_Task
  \/ \E t \in FiveTasks : GET_System_Config(t)
  \/ \E t \in FiveTasks : Update_System_Config(t)
  \/ \E t \in FiveTasks : GET_System_Status(t)
  \/ \E t \in FiveTasks : Update_System_Status(t)
  \/ \E t \in FiveTasks : Transmit_Data(t)

SpecFive == InitFive /\ [][NextFive]_vars

\* the step is one of the Command Task and of no other task
CommandStep ==
  /\ call'["command"] # call["command"] \/ pc'["command"] # pc["command"]
  /\ \A t \in Tasks \ {"command"} : call'[t] = call[t] /\ pc'[t] = pc[t]

\* C13: a step that changes a member of SystemConfig is the memcpy of
\* Update_System_Config called by the Command Task while it handles a SET
\* command; no step of another task and no GET or CTL command changes it.
C13_OnlyCommandSet ==
  [][g_systemConfig' # g_systemConfig =>
       /\ CommandStep
       /\ In("command", "Update_System_Config")
       /\ cmd.type = W("SET")]_vars

\* a SET changed the cycle time in a run where the Image Task sent an image
\* and the Telemetry Task a sentence
C13_Witness ==
  /\ g_systemConfig.ssdvCycleTimeSec = 30
  /\ ssdvImageId = 1
  /\ Telemetry_Counter = 1

(* ------------------------------------------------------------------ *)
(* The serial port: producers, the transmit queue, the Data-Link Task  *)
(* ------------------------------------------------------------------ *)
WireFrames == 2
WireCycles == 1
WireTasks == {"datalink", "command", "telemetry", "relay"}
WireInputs == {QueryFrame("GET", "CAM"), RelayFrame(<<"X">>)}

InitWire ==
  Booted([NoEnv EXCEPT !.frames = WireFrames, !.inputs = WireInputs, !.telemetry = WireCycles],
         DefaultStatus, [NoObs EXCEPT !.wire.on = TRUE], 0)

NextWire ==
  \/ Serial_Arrive
  \/ V_Datalink_Task
  \/ V_Command_Task
  \/ Handle_GET_Command
  \/ V_Relay_Task
  \/ V_Telemetry_Task
  \/ \E t \in WireTasks : GET_System_Config(t)
  \/ \E t \in WireTasks : GET_System_Status(t)
  \/ \E t \in WireTasks : Transmit_Data(t)

\* the Data-Link Task runs whenever it can, a task that holds the status mutex
\* goes on to give it, and a task that waits for it is woken when it is given
FairWire ==
  /\ WF_vars(V_Datalink_Task)
  /\ \A t \in WireTasks : SF_vars(GET_System_Status(t))

SpecWire == InitWire /\ [][NextWire]_vars /\ FairWire

\* the step is one of task t: no other task moves
StepOf(t) == \A u \in Tasks \ {t} : call'[u] = call[u] /\ pc'[u] = pc[u]

\* what a step does to the transmit queue and to the serial port: nothing, or
\* one packet goes into the queue, or the Data-Link Task takes the head of the
\* queue and writes it to the port
QueueStep ==
  \/ txQueue' = txQueue /\ obs'.wire = obs.wire
  \/ /\ Len(txQueue') = Len(txQueue) + 1
     /\ Tail(txQueue') = txQueue \/ SubSeq(txQueue', 1, Len(txQueue)) = txQueue
     /\ obs'.wire = obs.wire
  \/ /\ txQueue # <<>>
     /\ txQueue' = Tail(txQueue)
     /\ obs'.wire.log = Append(obs.wire.log, Head(txQueue))
     /\ StepOf("datalink")

\* C14: a packet leaves the transmit queue only when the Data-Link Task takes
\* it from the head and writes it, whole, to the serial port, once; no other
\* step removes a packet or writes to the port; and the queue is emptied again
\* and again, so every packet that was enqueued is written.
C14_WrittenOnce ==
  /\ [][QueueStep]_vars
  /\ []<>(txQueue = <<>>)

\* a telemetry sentence and a command report were written, in a run of at
\* least three packets, and nothing is left in the queue
C14_Witness ==
  /\ txQueue = <<>>
  /\ Len(obs.wire.log) >= 3
  /\ \E i, j \in 1..Len(obs.wire.log) :
       /\ obs.wire.log[i].data.kind = "telemetry"
       /\ obs.wire.log[j].data.kind = "status"

\* the number of status frames with code c among the first k packets written
WrittenCodes(c, k) ==
  Cardinality({i \in 1..k : /\ obs.wire.log[i].data.kind = "status"
                            /\ obs.wire.log[i].data.code = c})

\* C15 as stated, for the two reports of GET CAM, which the Command Task
\* submits one after the other: they are written in the order of submission, so
\* at no point of the output are there more quality reports than size reports.
C15_AsStated ==
  \A k \in 1..Len(obs.wire.log) :
    WrittenCodes("CMD_ACK_GET_CAM_QUALITY", k) <= WrittenCodes("CMD_ACK_GET_CAM_SIZE", k)

(* ------------------------------------------------------------------ *)
(* Text frames: long relay payloads through Transmit_Text             *)
(* ------------------------------------------------------------------ *)
TextFrames == 3
RelayOfLen(n) == RelayFrame([k \in 1..n |-> "A"])
\* the longest content that leaves room for the whole trailer
RoomForText == MAX_TX_BUFF_SIZE - 1 - Len(TextHeader) - Len(TextTrailer)
\* relay frames with a payload of one byte, of the longest payload whose
\* "##RELAY," content fits, of one byte more, and of the longest payload the
\* frame buffer holds behind "##"
TextInputs ==
  {RelayOfLen(1),
   RelayOfLen(RoomForText - BodyLen(RelayBody(<<>>))),
   RelayOfLen(RoomForText - BodyLen(RelayBody(<<>>)) + 1),
   RelayOfLen(MAX_RX_BUFF_SIZE - 1 - 2)}

InitText ==
  Booted([NoEnv EXCEPT !.frames = TextFrames, !.inputs = TextInputs], DefaultStatus, NoObs, 0)

SpecText == InitText /\ [][NextRelay]_vars

\* the packet holds the whole header and the whole trailer
Delimited(p) ==
  /\ TextParts(p.data).header = Len(TextHeader)
  /\ TextParts(p.data).trailer = Len(TextTrailer)

\* C16 as stated: every text frame on the transmit queue begins with "** " and
\* ends with " **", whatever the length of its content.
C16_AsStated ==
  \A i \in 1..Len(txQueue) : ~txQueue[i].is_binary => Delimited(txQueue[i])

(* ------------------------------------------------------------------ *)
(* Answers: well-formed and malformed commands                        *)
(* ------------------------------------------------------------------ *)
CmdFrames == 3
CmdInputs ==
  {CommandFrame("CTL", "RELAY", <<"ON">>),
   CommandFrame("CTL", "RELAY", <<"MAYBE">>),
   CommandFrame("CTL", "SSDV", <<"1">>),
   CommandFrame("CTL", "SYS", <<"HALT">>),
   CommandFrame("CTL", "SYS", <<"REBOOT">>),
   CommandFrame("SET", "SSDV_TYPE", <<"FAST">>),
   CommandFrame("SET", "SSDV_CYCLE", <<"3", "0">>),
   CommandFrame("SET", "CAM_QUALITY", <<"9", "9">>),
   CommandFrame("SET", "GAIN", <<"1">>),
   CommandFrame("RUN", "CAM", <<"1">>),
   QueryFrame("SET", "CAM_QUALITY"),
   QueryFrame("GET", "GAIN"),
   <<"@", "@", "GET", "\n">>}

InitCmd ==
  Booted([NoEnv EXCEPT !.frames = CmdFrames, !.inputs = CmdInputs], DefaultStatus, NoObs, 0)

NextCmd ==
  \/ Serial_Arrive
  \/ Datalink_Transmit
  \/ Datalink_Receive
  \/ V_Command_Task
  \/ Process_Command
  \/ Handle_GET_Command
  \/ Handle_CTL_Command
  \/ Handle_SET_Command
  \/ GET_System_Status("command")
  \/ Update_System_Status("command")
  \/ GET_System_Config("command")
  \/ Update_System_Config("command")
  \/ Transmit_Data("command")

SpecCmd == InitCmd /\ [][NextCmd]_vars

\* C17 as stated: a command the Command Task has handled was answered with at
\* least one status frame, whatever its verb, target and value, and the device
\* is restarted by no command other than CTL SYS REBOOT.
C17_AsStated ==
  /\ CmdDone => obs.cmdLog # <<>>
  /\ device = "restarted" =>
       cmd.type = W("CTL") /\ cmd.target = W("SYS") /\ cmd.value = W("REBOOT")

(* ------------------------------------------------------------------ *)
(* Restarts: the end of setup(), CTL SYS REBOOT, the fatal rollback   *)
(* ------------------------------------------------------------------ *)
BootFrames == 1
BootFaults == 2
BootInputs ==
  {CommandFrame("CTL", "SYS", <<"REBOOT">>), CommandFrame("SET", "CAM_QUALITY", <<"1", "2">>)}

\* variant: the check passes whatever the flag says
Ready_Always(status) == TRUE

\* "if (Initialization_Status)"
Ready(status) == status

\* Initialization_Check() as setup() calls it, up to "Transmit_Status(SYS_INIT_OK)"
Initialization_Check ==
  /\ \/ /\ At("loop", "init_check")
        /\ IF Ready(Initialization_Status)
           THEN IF env.debug
                THEN /\ Do("loop", "init_ok", SendStatus("SYS_DEV_MODE_ENABLED"))
                     /\ obs' = Logged(obs, "SYS_DEV_MODE_ENABLED", FALSE, 0)
                ELSE /\ Do("loop", "create_tasks", SendStatus("SYS_INIT_OK"))
                     /\ obs' = Logged(obs, "SYS_INIT_OK", FALSE, 0)
           ELSE /\ Do("loop", "init_restart", SendStatus("SYS_INIT_FAIL"))
                /\ obs' = Logged(obs, "SYS_INIT_FAIL", FALSE, 0)
        /\ UNCHANGED device
     \/ /\ At("loop", "init_ok")
        /\ Do("loop", "create_tasks", SendStatus("SYS_INIT_OK"))
        /\ obs' = Logged(obs, "SYS_INIT_OK", FALSE, 0)
        /\ UNCHANGED device
     \/ /\ At("loop", "init_restart")
        /\ device' = "restarted"
        /\ obs' = Restarted(obs, "INIT")
        /\ UNCHANGED svc
  /\ UNCHANGED <<shared, Initialization_Status, cameraMutex, inq, rx, copies, cmdloc, imgloc,
                 relayloc, telloc, env>>

\* phase 4 of setup(): the other tasks are created, then loop() runs
setup ==
  /\ At("loop", "create_tasks")
  /\ pc' = StartPc
  /\ UNCHANGED <<call, tx_result, txQueue, timeouts, g_configMutex, g_stateMutex>>
  /\ UNCHANGED <<shared, Initialization_Status, cameraMutex, inq, rx, copies, cmdloc, imgloc,
                 relayloc, telloc, device, env, obs>>

\* the firmware at the end of phase 2 of setup(): only the Data-Link Task
\* exists, and Initialization_Status is false if Signal_Error() or
\* Initialize_GPS() has cleared it
InitBoot ==
  /\ g_systemConfig = DefaultConfig
  /\ g_systemStatus = DefaultStatus
  /\ Initialization_Status \in BOOLEAN
  /\ g_configMutex = NoTask /\ g_stateMutex = NoTask /\ cameraMutex = NoTask
  /\ txQueue = <<>> /\ cmdQueue = <<>> /\ relayQueue = <<>>
  /\ serialRx = <<>> /\ frame_buffer = <<>>
  /\ pc = [t \in Tasks |-> IF t = "datalink" THEN StartPc[t]
                           ELSE IF t = "loop" THEN "init_check" ELSE "not_created"]
  /\ call = [t \in Tasks |-> NoCall]
  /\ tx_result = [t \in Tasks |-> FALSE]
  /\ timeouts = 0
  /\ local_status = [t \in Tasks |-> DefaultStatus]
  /\ local_config = [x \in ConfigSlots |-> DefaultConfig]
  /\ cmd = NoCmd
  /\ config_changed = FALSE
  /\ reconf = NoReconf
  /\ camera = [inited |-> TRUE, frame_size |-> DefaultConfig.cameraImageSize,
               jpeg_quality |-> DefaultConfig.cameraImageQuality]
  /\ img = NoImg
  /\ tel = NoTel
  /\ ssdvImageId = 0
  /\ relay_count_since_reset = 0
  /\ relay_limited_warned = FALSE
  /\ Telemetry_Counter = 0
  /\ device = "running"
  /\ env = [NoEnv EXCEPT !.frames = BootFrames, !.inputs = BootInputs, !.camFaults = BootFaults]
  /\ obs = [NoObs EXCEPT !.wire.on = TRUE]

NextBoot ==
  \/ Serial_Arrive
  \/ Datalink_Transmit
  \/ Datalink_Receive
  \/ Initialization_Check
  \/ setup
  \/ loop
  \/ V_Command_Task
  \/ Handle_CTL_Command
  \/ SetActions
  \/ GET_System_Status("command")
  \/ Update_System_Status("loop")
  \/ GET_System_Config("command")
  \/ Update_System_Config("command")
  \/ \E t \in {"loop", "command"} : Transmit_Data(t)
  \/ Signal_Error("command")

SpecBoot == InitBoot /\ [][NextBoot]_vars

\* the status that announces a restart
AnnounceCode(why) == IF why = "INIT" THEN "SYS_INIT_FAIL" ELSE "SYS_RESTARTING"

\* the last status the restarting code submitted was code, and its frame was
\* put on the transmit queue (it is there, or was written to the port)
Announced(code) ==
  /\ obs.cmdLog # <<>>
  /\ obs.cmdLog[Len(obs.cmdLog)].code = code
  /\ \/ \E i \in 1..Len(txQueue) : txQueue[i] = TextPacket(StatusBody(code, FALSE, 0))
     \/ \E i \in 1..Len(obs.wire.log) : obs.wire.log[i] = TextPacket(StatusBody(code, FALSE, 0))

\* C18: whenever the firmware calls esp_restart() (CTL SYS REBOOT, the fatal
\* camera rollback, a failed initialization at the end of setup()), the last
\* thing the restarting code did was to submit the status frame that announces
\* it: SYS_INIT_FAIL at boot, SYS_RESTARTING otherwise.
C18_RestartAnnounced ==
  [][(device = "running" /\ device' = "restarted") => Announced(AnnounceCode(obs'.restart))]_vars

\* the device restarted after the rollback to the defaults had failed, with
\* CAM_RESTORE_DEFAULT_FAIL and SYS_RESTARTING submitted
C18_Witness ==
  /\ device = "restarted"
  /\ obs.restart = "CAMERA"
  /\ CodeBefore("CAM_RESTORE_DEFAULT_FAIL", "SYS_RESTARTING")
  /\ Announced("SYS_RESTARTING")

(* ------------------------------------------------------------------ *)
(* Frames longer than the frame buffer                                *)
(* ------------------------------------------------------------------ *)
\* C19 as stated: a frame that filled the frame buffer before its newline is
\* dropped as a whole: none of its bytes is offered to the command queue or
\* to the relay queue, the bytes behind the overflow point included.
C19_AsStated ==
  (Classified /\ ~Fits(obs.rx)) => (~obs.rx.toCmd /\ ~obs.rx.toRelay)

(* ------------------------------------------------------------------ *)
(* SET CAM_QUALITY after SET CAM_SIZE                                 *)
(* ------------------------------------------------------------------ *)
LowFrames == 2
LowFaults == 1
LowInputs ==
  {CommandFrame("SET", "CAM_SIZE", <<"XGA">>),
   CommandFrame("SET", "CAM_SIZE", <<"FHD">>),
   CommandFrame("SET", "CAM_QUALITY", <<"5">>),
   CommandFrame("SET", "CAM_QUALITY", <<"7">>),
   CommandFrame("SET", "CAM_QUALITY", <<"9">>),
   CommandFrame("SET", "CAM_QUALITY", <<"1", "0">>)}

InitLow ==
  Booted([NoEnv EXCEPT !.frames = LowFrames, !.inputs = LowInputs, !.camFaults = LowFaults],
         DefaultStatus, NoObs, 0)

SpecLow == InitLow /\ [][NextSet]_vars

\* the Command Task has handled a SET CAM_QUALITY v with 5 <= v < 10 that passed
\* the busy check, and the copy of the configuration it was checked against
\* (the candidate) has an image size above SVGA
LowQualityHandled ==
  /\ CmdDone
  /\ IsSetOf("CAM_QUALITY")
  /\ obs.busy = "free"
  /\ 5 <= atoi(cmd.value) /\ atoi(cmd.value) < 10
  /\ local_config["command"].cameraImageSize > FRAMESIZE_SVGA

\* C20: a SET CAM_QUALITY v with 5 <= v < 10 whose candidate configuration has
\* an image size above SVGA is answered with CMD_NACK_SET_CAM_QUAL_LOW alone,
\* leaves SystemConfig as it was and reconfigures no camera.
C20_LowQualityRejected ==
  LowQualityHandled =>
    /\ obs.cmdLog = <<[code |-> "CMD_NACK_SET_CAM_QUAL_LOW", has |-> FALSE, info |-> 0]>>
    /\ g_systemConfig = obs.cmdStart
    /\ obs.reconfs = 0
    /\ device = "running"

\* SET CAM_QUALITY 7 refused after a SET CAM_SIZE XGA that was stored
C20_Witness ==
  /\ LowQualityHandled
  /\ atoi(cmd.value) = 7
  /\ g_systemConfig.cameraImageSize = FRAMESIZE_XGA
  /\ camera.frame_size = FRAMESIZE_XGA
  /\ g_systemConfig.cameraImageQuality = DefaultConfig.cameraImageQuality
  /\ HasCode("CMD_NACK_SET_CAM_QUAL_LOW")

(* ------------------------------------------------------------------ *)
(* The camera: capture against reconfiguration                        *)
(* ------------------------------------------------------------------ *)
\* the Command Task is inside Reconfigure_Camera (esp_camera_deinit,
\* Setup_Camera, Camera_Calibrate, Signal_Error)
Reconfiguring ==
  pc["command"] \in {"setup_cfg", "setup_init", "calibrate", "calib_loop", "calib_signal",
                     "signal_error"}

GiveUpPackets == 3
\* waits that expire: three calls of Transmit_Data of three passes each
GiveUpTimeouts == TX_ATTEMPTS * TX_ATTEMPTS

InitGiveUp ==
  Booted([NoEnv EXCEPT !.images = 1, !.packets = GiveUpPackets], DefaultStatus, NoObs,
         GiveUpTimeouts)

NextGiveUp ==
  \/ Datalink_Transmit
  \/ ImageActions
  \/ GET_System_Status("ssdv")
  \/ Update_System_Status("ssdv")
  \/ GET_System_Config("ssdv")
  \/ Transmit_Data("ssdv")

SpecGiveUp == InitGiveUp /\ [][NextGiveUp]_vars

\* the Image Task is in the encode loop and has given up the last packet
GaveUp == At("ssdv", "enc_loop") /\ ~img.sending /\ PacketGivenUp(img.retry_count)

\* C22 as stated: once the submission of a packet has failed after its
\* retries, the encode/submit loop of the image is left: the Image Task hands
\* no further packet of this image to Transmit_Data (and the device keeps running).
C22_AsStated == [][GaveUp => (~img'.sending /\ device' = "running")]_vars

(* ------------------------------------------------------------------ *)
(* Relaying while an image is transmitted                             *)
(* ------------------------------------------------------------------ *)
\* the step in which the Relay Task takes a frame from the relay queue and
\* calls Transmit_Text("##RELAY,%s", ..)
RelayEmits ==
  /\ relayQueue # <<>> /\ relayQueue' = Tail(relayQueue)
  /\ obs'.win.emitted = obs.win.emitted + 1

\* C23 as stated: the Relay Task submits no re-emitted relay frame while
\* isSsdvTransmitting is true, frames that were in the relay queue when the
\* transmission started included.
C23_AsStated == [][RelayEmits => ~g_systemStatus.isSsdvTransmitting]_vars

(* ------------------------------------------------------------------ *)
(* The busy flag over the iterations of the Image Task                *)
(* ------------------------------------------------------------------ *)
NapFrames == 1
NapImages == 2
NapFaults == 1
NapInputs == {CommandFrame("CTL", "SSDV", <<"OFF">>)}

InitNap ==
  Booted([NoEnv EXCEPT !.frames = NapFrames, !.inputs = NapInputs, !.images = NapImages,
                       !.imgFaults = NapFaults],
         DefaultStatus, NoObs, 0)

NextNap ==
  \/ Serial_Arrive
  \/ Datalink_Transmit
  \/ Datalink_Receive
  \/ V_Command_Task
  \/ Handle_CTL_Command
  \/ ImageActions
  \/ \E t \in {"command", "ssdv"} : GET_System_Status(t)
  \/ \E t \in {"command", "ssdv"} : Update_System_Status(t)
  \/ GET_System_Config("ssdv")
  \/ \E t \in {"command", "ssdv"} : Transmit_Data(t)
  \/ Signal_Error("ssdv")

SpecNap == InitNap /\ [][NextNap]_vars

\* the Image Task found the image subsystem disabled and naps for 5 s
Naps ==
  /\ At("ssdv", "ssdv_check")
  /\ ~local_status["ssdv"].isSsdvEnabled
  /\ pc'["ssdv"] = "ssdv_loop"
\* the Image Task is in the sleep between two images
CycleSleep == At("ssdv", "ssdv_sleep")

\* C24 as stated: whenever the Image Task naps because the image subsystem is
\* disabled, or sleeps between two images, isSsdvTransmitting is false, also
\* after an iteration in which the capture failed.
C24_AsStated == [][(Naps \/ CycleSleep) => ~g_systemStatus.isSsdvTransmitting]_vars

\* every task runs when it can; a task that waits for a mutex or for a slot of
\* the transmit queue goes on when the mutex is given or a slot is free
FairNap ==
  /\ WF_vars(Datalink_Transmit)
  /\ WF_vars(Datalink_Receive)
  /\ WF_vars(V_Command_Task)
  /\ WF_vars(Handle_CTL_Command)
  /\ WF_vars(ImageActions)
  /\ \A t \in {"command", "ssdv"} : SF_vars(Service(t))

SpecNapLive == InitNap /\ [][NextNap]_vars /\ FairNap

\* the run has no image left: the Image Task stays in front of its next capture
NoImageLeft ==
  At("ssdv", "ssdv_check") /\ local_status["ssdv"].isSsdvEnabled /\ env.images = 0

\* C25 as stated: under fair scheduling, whenever isSsdvTransmitting is true it
\* is false again later (in a run that ends before the next capture: unless
\* the run ends there).
C25_AsStated ==
  g_systemStatus.isSsdvTransmitting ~> (~g_systemStatus.isSsdvTransmitting \/ NoImageLeft)


(* ------------------------------------------------------------------ *)
(* The configuration and the camera while an image is being sent       *)
(* ------------------------------------------------------------------ *)
\* a step that writes SystemConfig or deinitialises or initialises the camera
Reconfigures ==
  \/ g_systemConfig' # g_systemConfig
  \/ camera' # camera

C27_AsStated ==
  ~(/\ g_systemConfig.cameraImageSize > FRAMESIZE_SVGA
    /\ g_systemConfig.cameraImageQuality < 10)

(* ------------------------------------------------------------------ *)
(* The encode loop of one image                                        *)
(* ------------------------------------------------------------------ *)
FeedImages == 1
FeedPackets == 2
FeedFaults == 1
FeedTimeouts == 1
\* frames shorter than, as long as and longer than the feed buffer
FeedLens == {SSDV_FEED_BUFF_SIZE - 28, SSDV_FEED_BUFF_SIZE, 2 * SSDV_FEED_BUFF_SIZE + 44}

InitFeed ==
  Booted([NoEnv EXCEPT !.images = FeedImages, !.packets = FeedPackets, !.imgFaults = FeedFaults,
                       !.lens = FeedLens, !.eois = BOOLEAN],
         DefaultStatus, [NoObs EXCEPT !.wire.on = TRUE], FeedTimeouts)

NextFeed ==
  \/ Datalink_Transmit
  \/ ImageActions
  \/ SSDV_Feed
  \/ GET_System_Status("ssdv")
  \/ Update_System_Status("ssdv")
  \/ GET_System_Config("ssdv")
  \/ Transmit_Data("ssdv")

SpecFeed == InitFeed /\ [][NextFeed]_vars

\* the Image Task is about to call ssdv_enc_get_packet
Asks == At("ssdv", "enc_loop") /\ ~(img.sending /\ ~tx_result["ssdv"])
\* the step in which ssdv_enc_get_packet returns c to the Image Task
Got(c) == Asks /\ (img' # img \/ pc'["ssdv"] # pc["ssdv"]) /\ img'.c = c
\* the step in which the Image Task calls Transmit_Data for the packet p
Hands(p) ==
  /\ call["ssdv"] = NoCall
  /\ \/ call'["ssdv"].proc = "Transmit_Data" /\ call'["ssdv"].packet = p
     \/ /\ Len(txQueue') = Len(txQueue) + 1
        /\ \E i \in 1..Len(txQueue') : /\ txQueue'[i] = p
                                        /\ txQueue = SubSeq(txQueue', 1, i - 1) \o
                                                      SubSeq(txQueue', i + 1, Len(txQueue'))
\* the step hands some packet of kind k to Transmit_Data for the first time
HandsKind(k) ==
  /\ call["ssdv"] = NoCall
  /\ ~(img.sending /\ ~tx_result["ssdv"])
  /\ \/ call'["ssdv"].proc = "Transmit_Data" /\ call'["ssdv"].packet.data.kind = k
     \/ /\ Len(txQueue') = Len(txQueue) + 1
        /\ \E i \in 1..Len(txQueue') : /\ txQueue'[i].data.kind = k
                                        /\ txQueue = SubSeq(txQueue', 1, i - 1) \o
                                                      SubSeq(txQueue', i + 1, Len(txQueue'))
\* Process_SSDV_Packet has returned and its caller has released frame and lock
Released == ~img'.fb /\ cameraMutex' # "ssdv" /\ pc'["ssdv"] = "ssdv_drain"

\* C28: in the encode loop source bytes are fed only when the encoder asked
\* for input; every packet the encoder completes is handed to Transmit_Data
\* as one binary packet of 256 bytes, and no packet is handed over otherwise;
\* at end-of-image the loop is left without a status; on an encoder error
\* SSDV_ENCODE_ERROR is submitted with the error code, no further packet is
\* handed over, and the function returns so that the frame and the camera
\* lock are released.
C28_EncodeLoop ==
  [][ /\ (img.fb /\ img'.fb /\ img'.index # img.index) =>
           /\ Got(SSDV_FEED_ME)
           /\ img'.index > img.index /\ img'.index <= img.len
           /\ img'.index - img.index <= SSDV_FEED_BUFF_SIZE
      /\ Got(SSDV_OK) =>
           \E p \in {SsdvPacket(img.id, img'.packet_count)} :
              Hands(p) /\ p.length = 256 /\ p.is_binary
      /\ HandsKind("ssdv") => Got(SSDV_OK)
      /\ Got(SSDV_EOI) => (Released /\ txQueue' = txQueue /\ call'["ssdv"] = NoCall)
      /\ Got(SSDV_ERROR) =>
           /\ Hands(TextPacket(StatusBody("SSDV_ENCODE_ERROR", TRUE, SSDV_ERROR)))
           /\ pc'["ssdv"] = "enc_error"
      /\ (At("ssdv", "enc_error") /\ pc'["ssdv"] # "enc_error") =>
           (Released /\ txQueue' = txQueue /\ call'["ssdv"] = NoCall)
    ]_vars

\* the encoder failed after it had been fed more than one chunk and had
\* completed a packet, which was written to the serial port
C28_Witness ==
  /\ pc["ssdv"] = "enc_error"
  /\ img.c = SSDV_ERROR
  /\ img.index > SSDV_FEED_BUFF_SIZE
  /\ img.packet_count > 0
  /\ \E i \in 1..Len(obs.wire.log) : obs.wire.log[i].data.kind = "ssdv"

(* ------------------------------------------------------------------ *)
(* Termination of Process_SSDV_Packet                                  *)
(* ------------------------------------------------------------------ *)
\* the Data-Link Task and the Image Task are scheduled whenever they can run;
\* an encoder that can complete a packet or end the image does so
FairFeed ==
  /\ WF_vars(Datalink_Transmit)
  /\ WF_vars(ImageActions)
  /\ WF_vars(SSDV_Feed)
  /\ SF_vars(Service("ssdv"))

SpecFeedLive == InitFeed /\ [][NextFeed]_vars /\ FairFeed

\* the Image Task is inside Process_SSDV_Packet
Encoding == device = "running" /\ pc["ssdv"] \in {"enc_loop", "enc_error"}

\* C29 as stated: for every frame and every sequence of answers of the
\* encoder, Process_SSDV_Packet returns after finitely many steps, also when
\* the encoder still asks for input after the whole frame has been fed.
C29_AsStated == Encoding ~> ~Encoding

(* ------------------------------------------------------------------ *)
(* The images on the serial output                                     *)
(* ------------------------------------------------------------------ *)
OrderFrames == 1
OrderImages == 2
OrderPackets == 2
OrderFaults == 1
OrderTimeouts == 3
OrderInputs == {CommandFrame("CTL", "RELAY", <<"OFF">>)}

InitOrder ==
  Booted([NoEnv EXCEPT !.frames = OrderFrames, !.inputs = OrderInputs, !.images = OrderImages,
                       !.packets = OrderPackets, !.imgFaults = OrderFaults],
         DefaultStatus, [NoObs EXCEPT !.wire.on = TRUE], OrderTimeouts)

SpecOrder == InitOrder /\ [][NextNap]_vars

\* the i-th packet written to the serial port is an SSDV packet
WrotePacket(i) == obs.wire.log[i].data.kind = "ssdv"
\* the i-th packet written is the status code with the image id k
WroteStatus(i, code, k) ==
  /\ obs.wire.log[i].data.kind = "status"
  /\ obs.wire.log[i].data.code = code
  /\ obs.wire.log[i].data.has
  /\ obs.wire.log[i].data.info = k

\* C30: on the serial output the SSDV_ENCODE_START frame of an image is
\* written before its first packet, its packets are written in the order the
\* encoder completed them, its SSDV_ENCODE_END frame is written after its last
\* packet, and the packets of two images do not interleave: after a packet
\* of a later image no packet of an earlier image is written.
C30_WireOrder ==
  \A i \in 1..Len(obs.wire.log) :
    WrotePacket(i) =>
      \E k \in {obs.wire.log[i].data.image} :
        /\ \E s \in 1..(i - 1) : WroteStatus(s, "SSDV_ENCODE_START", k)
        /\ \A e \in 1..(i - 1) : ~WroteStatus(e, "SSDV_ENCODE_END", k)
        /\ \A j \in 1..(i - 1) :
             WrotePacket(j) =>
               IF obs.wire.log[j].data.image = k
               THEN obs.wire.log[j].data.seq < obs.wire.log[i].data.seq
               ELSE \A l \in (i + 1)..Len(obs.wire.log) :
                      WrotePacket(l) => obs.wire.log[l].data.image # obs.wire.log[j].data.image

\* two packets of the first image, its end, then a packet of the second
\* image were written, and the answer to a command among them
C30_Witness ==
  /\ \E a, b, e, c \in 1..Len(obs.wire.log) :
       /\ a < b /\ b < e /\ e < c
       /\ obs.wire.log[a] = SsdvPacket(0, 0)
       /\ obs.wire.log[b] = SsdvPacket(0, 1)
       /\ WroteStatus(e, "SSDV_ENCODE_END", 0)
       /\ obs.wire.log[c] = SsdvPacket(1, 0)
  /\ \E r \in 1..Len(obs.wire.log) :
       /\ obs.wire.log[r].data.kind = "status"
       /\ obs.wire.log[r].data.code = "CMD_ACK_RELAY_OFF"

(* ------------------------------------------------------------------ *)
(* The Relay Task while relaying is disabled                           *)
(* ------------------------------------------------------------------ *)
OffFrames == 3
OffInputs == {RelayFrame(<<"X">>), CommandFrame("CTL", "RELAY", <<"OFF">>)}
OffTasks == {"datalink", "command", "relay"}

InitOff ==
  Booted([NoEnv EXCEPT !.frames = OffFrames, !.inputs = OffInputs], DefaultStatus, NoObs, 0)

NextOff ==
  \/ Serial_Arrive
  \/ V_Datalink_Task
  \/ V_Command_Task
  \/ Handle_CTL_Command
  \/ V_Relay_Task
  \/ \E t \in OffTasks : GET_System_Status(t)
  \/ \E t \in OffTasks : Update_System_Status(t)
  \/ \E t \in OffTasks : Transmit_Data(t)

SpecOff == InitOff /\ [][NextOff]_vars

\* a CTL RELAY OFF has been applied: the flag is false and the ack was submitted
RelayIsOff == ~g_systemStatus.isRelayEnabled /\ HasCode("CMD_ACK_RELAY_OFF")
\* the step in which the Relay Task takes a frame from the relay queue
RelayTakes == relayQueue # <<>> /\ relayQueue' = Tail(relayQueue)

\* C31 as stated: once a CTL RELAY OFF has been applied and acknowledged, the
\* Relay Task takes no frame from the relay queue (and so submits no
\* "##RELAY,.." frame) while relaying stays disabled.
C31_AsStated == [][RelayIsOff => ~RelayTakes]_vars

(* ------------------------------------------------------------------ *)
(* CTL RELAY and CTL SSDV                                              *)
(* ------------------------------------------------------------------ *)
CtlFrames == 2
CtlImages == 1
CtlFaults == 1
CtlInputs ==
  {CommandFrame("CTL", "RELAY", <<"ON">>), CommandFrame("CTL", "RELAY", <<"OFF">>),
   CommandFrame("CTL", "SSDV", <<"ON">>), CommandFrame("CTL", "SSDV", <<"OFF">>)}

InitCtl ==
  Booted([NoEnv EXCEPT !.frames = CtlFrames, !.inputs = CtlInputs, !.images = CtlImages,
                       !.imgFaults = CtlFaults],
         DefaultStatus, NoObs, 0)

SpecCtl == InitCtl /\ [][NextNap]_vars

\* the command being handled is CTL RELAY ON|OFF or CTL SSDV ON|OFF
IsToggle ==
  /\ cmd # NoCmd
  /\ cmd.type = W("CTL")
  /\ cmd.target \in {W("RELAY"), W("SSDV")}
  /\ cmd.value \in {W("ON"), W("OFF")}
\* the status record with the flag the command names set to the value it names
Toggled(st) ==
  IF cmd.target = W("RELAY")
  THEN [st EXCEPT !.isRelayEnabled = (cmd.value = W("ON"))]
  ELSE [st EXCEPT !.isSsdvEnabled = (cmd.value = W("ON"))]
\* the ack the command names
ToggleAck ==
  CASE cmd.target = W("RELAY") /\ cmd.value = W("ON") -> "CMD_ACK_RELAY_ON"
    [] cmd.target = W("RELAY") /\ cmd.value = W("OFF") -> "CMD_ACK_RELAY_OFF"
    [] cmd.target = W("SSDV") /\ cmd.value = W("ON") -> "CMD_ACK_SSDV_ON"
    [] OTHER -> "CMD_ACK_SSDV_OFF"

CodecFrames == 2
CodecImages == 1
CodecInputs ==
  {CommandFrame("SET", "SSDV_TYPE", <<"NORMAL">>),
   CommandFrame("SET", "SSDV_TYPE", <<"NOFEC">>),
   CommandFrame("SET", "SSDV_QUALITY", <<"0">>),
   CommandFrame("SET", "SSDV_QUALITY", <<"6">>),
   CommandFrame("SET", "SSDV_CYCLE", <<"1", "0">>),
   CommandFrame("SET", "SSDV_CYCLE", <<"1", "0", "0">>)}

InitCodec ==
  Booted([NoEnv EXCEPT !.frames = CodecFrames, !.inputs = CodecInputs, !.images = CodecImages],
         DefaultStatus, NoObs, 0)

NextCodec ==
  \/ Serial_Arrive
  \/ Datalink_Transmit
  \/ Datalink_Receive
  \/ V_Command_Task
  \/ Handle_SET_Command
  \/ ImageActions
  \/ \E t \in {"command", "ssdv"} : GET_System_Status(t)
  \/ \E t \in {"command", "ssdv"} : GET_System_Config(t)
  \/ Update_System_Status("ssdv")
  \/ Update_System_Config("command")
  \/ \E t \in {"command", "ssdv"} : Transmit_Data(t)

SpecCodec == InitCodec /\ [][NextCodec]_vars

\* the command being handled is a SET of a codec parameter with a value the
\* specification accepts, and it passed the busy check
CodecAccepted ==
  /\ cmd # NoCmd
  /\ cmd.type = W("SET")
  /\ obs.busy = "free"
  /\ \/ cmd.target = W("SSDV_TYPE") /\ cmd.value \in {W("NORMAL"), W("NOFEC")}
     \/ cmd.target = W("SSDV_QUALITY") /\ atoi(cmd.value) \in 0..6
     \/ cmd.target = W("SSDV_CYCLE") /\ atoi(cmd.value) \in 10..100
\* the value the command asks for
CodecRequested ==
  IF cmd.target = W("SSDV_TYPE")
  THEN (IF cmd.value = W("NORMAL") THEN SSDV_TYPE_NORMAL ELSE SSDV_TYPE_NOFEC)
  ELSE atoi(cmd.value)
\* the configuration cfg with the parameter the command names set to that value
CodecApplied(cfg) ==
  CASE cmd.target = W("SSDV_TYPE") -> [cfg EXCEPT !.ssdvPacketType = CodecRequested]
    [] cmd.target = W("SSDV_QUALITY") -> [cfg EXCEPT !.ssdvEncodingQuality = CodecRequested]
    [] OTHER -> [cfg EXCEPT !.ssdvCycleTimeSec = CodecRequested]
CodecAck ==
  CASE cmd.target = W("SSDV_TYPE") -> "CMD_ACK_SSDV_TYPE"
    [] cmd.target = W("SSDV_QUALITY") -> "CMD_ACK_SSDV_QUALITY"
    [] OTHER -> "CMD_ACK_SSDV_CYCLE"

\* C33: an accepted SET of SSDV_TYPE, SSDV_QUALITY or SSDV_CYCLE handled with
\* image transmission not in progress changes the member of SystemConfig it
\* names to the value it names and no other member, submits the matching ack
\* and no other response, and never takes the camera lock or reconfigures the
\* camera.
C33_CodecFrame ==
  /\ []((CodecAccepted /\ CmdDone) =>
          /\ g_systemConfig = CodecApplied(obs.cmdStart)
          /\ obs.cmdLog = <<[code |-> CodecAck, has |-> TRUE, info |-> CodecRequested]>>
          /\ obs.reconfs = 0)
  /\ [][(CodecAccepted /\ CommandStep) =>
          /\ cameraMutex' # "command"
          /\ camera' = camera
          /\ g_systemConfig' \in {g_systemConfig, CodecApplied(obs.cmdStart)}]_vars

\* SET SSDV_CYCLE 100 was stored after SET SSDV_TYPE NORMAL while the Image
\* Task held the camera lock
C33_Witness ==
  /\ CodecAccepted /\ CmdDone
  /\ cmd.target = W("SSDV_CYCLE")
  /\ g_systemConfig.ssdvCycleTimeSec = 100
  /\ g_systemConfig.ssdvPacketType = SSDV_TYPE_NORMAL
  /\ HasResponse("CMD_ACK_SSDV_CYCLE", 100)
  /\ cameraMutex = "ssdv"

(* ------------------------------------------------------------------ *)
(* SET commands that fail validation                                   *)
(* ------------------------------------------------------------------ *)
BadFrames == 3
BadInputs ==
  {CommandFrame("SET", "BUZZER", <<"1">>),
   CommandFrame("SET", "CAM_SIZE", <<"HD">>),
   CommandFrame("SET", "CAM_QUALITY", <<"4">>),
   CommandFrame("SET", "CAM_QUALITY", <<"2", "1">>),
   CommandFrame("SET", "SSDV_TYPE", <<"FEC">>),
   CommandFrame("SET", "SSDV_QUALITY", <<"7">>),
   CommandFrame("SET", "SSDV_QUALITY", <<"-", "1">>),
   CommandFrame("SET", "SSDV_CYCLE", <<"9">>),
   CommandFrame("SET", "SSDV_CYCLE", <<"1", "0", "1">>)}

InitBad ==
  Booted([NoEnv EXCEPT !.frames = BadFrames, !.inputs = BadInputs], DefaultStatus, NoObs, 0)

NextBad ==
  \/ Serial_Arrive
  \/ Datalink_Transmit
  \/ Datalink_Receive
  \/ V_Command_Task
  \/ Handle_SET_Command
  \/ GET_System_Status("command")
  \/ GET_System_Config("command")
  \/ Transmit_Data("command")

SpecBad == InitBad /\ [][NextBad]_vars

\* the command being handled is a SET whose target or value is not valid
BadSet ==
  /\ cmd # NoCmd
  /\ cmd.type = W("SET")
  /\ cmd.value # <<>>
  /\ \/ ~(IsCamTarget(cmd) \/ IsSsdvTarget(cmd))
     \/ cmd.target = W("CAM_SIZE") /\ cmd.value \notin {W("FHD"), W("SXGA"), W("XGA"), W("VGA"), W("QVGA")}
     \/ cmd.target = W("CAM_QUALITY") /\ atoi(cmd.value) \notin 5..20
     \/ cmd.target = W("SSDV_TYPE") /\ cmd.value \notin {W("NORMAL"), W("NOFEC")}
     \/ cmd.target = W("SSDV_QUALITY") /\ atoi(cmd.value) \notin 0..6
     \/ cmd.target = W("SSDV_CYCLE") /\ atoi(cmd.value) \notin 10..100

\* C34: a SET whose target is unknown or whose value fails the validation of
\* its target leaves every member of SystemConfig unchanged, does not take
\* the camera lock and triggers no reconfiguration of the camera.
C34_BadSetFrame ==
  /\ [][(BadSet /\ CommandStep) =>
          /\ g_systemConfig' = g_systemConfig
          /\ cameraMutex' # "command"
          /\ camera' = camera
          /\ pc'["command"] # "set_take"]_vars
  /\ []((BadSet /\ CmdDone) => (g_systemConfig = DefaultConfig /\ obs.reconfs = 0))

\* SET CAM_QUALITY 21 was refused after SET SSDV_CYCLE 101 had been refused
C34_Witness ==
  /\ BadSet /\ CmdDone
  /\ cmd.target = W("CAM_QUALITY") /\ atoi(cmd.value) = 21
  /\ obs.cmdLog = <<[code |-> "CMD_NACK_SET_CAM_QUAL", has |-> FALSE, info |-> 0]>>
  /\ \E i \in 1..Len(txQueue) :
       txQueue[i].data.kind = "status" /\ txQueue[i].data.code = "CMD_NACK_SET_SSDV_CYCLE"

(* ------------------------------------------------------------------ *)
(* The branch Process_Command takes                                    *)
(* ------------------------------------------------------------------ *)
BranchFrames == 3
BranchInputs ==
  {<<"@", "@", ",", "\n">>,
   <<"@", "@", "GET", "\n">>,
   <<"@", "@", "SET", ",", "\n">>,
   QueryFrame("GET", "CAM"),
   CommandFrame("GET", "CAM", <<"1">>),
   QueryFrame("GET", "GAIN"),
   CommandFrame("GET", "GAIN", <<"1">>),
   QueryFrame("RUN", "CAM"),
   QueryFrame("SET", "CAM_QUALITY"),
   QueryFrame("CTL", "RELAY"),
   CommandFrame("CTL", "RELAY", <<"ON">>),
   CommandFrame("SET", "SSDV_CYCLE", <<"3", "0">>),
   CommandFrame("RUN", "CAM", <<"1">>)}

InitBranch ==
  Booted([NoEnv EXCEPT !.frames = BranchFrames, !.inputs = BranchInputs], DefaultStatus, NoObs, 0)

SpecBranch == InitBranch /\ [][NextCmd]_vars

\* the branch the claim names for the command c
Expected(c) ==
  CASE c.type = <<>> \/ c.target = <<>> -> "CMD_NACK_FORMAT_ERROR"
    [] c.type # <<>> /\ c.target # <<>> /\ c.type = W("GET") -> "GET"
    [] c.type # <<>> /\ c.target # <<>> /\ c.type # W("GET") /\ c.value = <<>> -> "CMD_NACK_NO_VALUE"
    [] c.target # <<>> /\ c.value # <<>> /\ c.type = W("CTL") -> "CTL"
    [] c.target # <<>> /\ c.value # <<>> /\ c.type = W("SET") -> "SET"
    [] OTHER -> "CMD_NACK_INVALID_TYPE"

\* the responses this step submitted
Answered == SubSeq(obs'.cmdLog, Len(obs.cmdLog) + 1, Len(obs'.cmdLog))
AnsweredWith(code) == Answered = <<[code |-> code, has |-> FALSE, info |-> 0]>>
\* the branches the step of the Command Task at the head of Process_Command took
Taken ==
  {b \in {"GET", "CTL", "SET", "CMD_NACK_FORMAT_ERROR", "CMD_NACK_NO_VALUE", "CMD_NACK_INVALID_TYPE"} :
     CASE b = "GET" -> \/ pc'["command"] \in {"get_relay", "get_ssdv", "get_cam"}
                       \/ AnsweredWith("CMD_NACK_INVALID_GET")
       [] b = "CTL" -> \/ pc'["command"] \in {"ctl_ack", "ctl_reboot"}
                       \/ AnsweredWith("CMD_NACK_INVALID_CTL")
       [] b = "SET" -> pc'["command"] = "set_check"
       [] OTHER -> AnsweredWith(b)}

\* C35: for every command Process_Command takes exactly one branch, the one
\* the verb, the target and the presence of a value select; a GET whose
\* target is not RELAY, SSDV or CAM is answered with CMD_NACK_INVALID_GET.
C35_OneBranch ==
  [][(At("command", "process") /\ CommandStep) =>
       /\ Taken = {Expected(cmd)}
       /\ (Expected(cmd) = "GET" /\ cmd.target \notin {W("RELAY"), W("SSDV"), W("CAM")}) =>
            (AnsweredWith("CMD_NACK_INVALID_GET") /\ pc'["command"] = "cmd_wait")]_vars

\* GET GAIN with a value was answered with CMD_NACK_INVALID_GET after a RUN
\* without a value had been answered with CMD_NACK_NO_VALUE
C35_Witness ==
  /\ CmdDone
  /\ cmd = [type |-> W("GET"), target |-> W("GAIN"), value |-> W("1")]
  /\ obs.cmdLog = <<[code |-> "CMD_NACK_INVALID_GET", has |-> FALSE, info |-> 0]>>
  /\ \E i \in 1..Len(txQueue) :
       txQueue[i].data.kind = "status" /\ txQueue[i].data.code = "CMD_NACK_NO_VALUE"

(* ------------------------------------------------------------------ *)
(* The telemetry cycles and the frame counter                          *)
(* ------------------------------------------------------------------ *)
TelCycles == 3
TelFaults == 1
\* the counter at the start of the run: a fresh boot, and close to its wrap
TelCounters == {0, 65534, 65535}

InitTel ==
  /\ g_systemConfig = DefaultConfig
  /\ g_systemStatus = DefaultStatus
  /\ Initialization_Status = TRUE
  /\ g_configMutex = NoTask /\ g_stateMutex = NoTask /\ cameraMutex = NoTask
  /\ txQueue = <<>> /\ cmdQueue = <<>> /\ relayQueue = <<>>
  /\ serialRx = <<>> /\ frame_buffer = <<>>
  /\ pc = StartPc
  /\ call = [t \in Tasks |-> NoCall]
  /\ tx_result = [t \in Tasks |-> FALSE]
  /\ timeouts = 0
  /\ local_status = [t \in Tasks |-> DefaultStatus]
  /\ local_config = [x \in ConfigSlots |-> DefaultConfig]
  /\ cmd = NoCmd
  /\ config_changed = FALSE
  /\ reconf = NoReconf
  /\ camera = [inited |-> TRUE, frame_size |-> DefaultConfig.cameraImageSize,
               jpeg_quality |-> DefaultConfig.cameraImageQuality]
  /\ img = NoImg
  /\ tel = NoTel
  /\ ssdvImageId = 0
  /\ relay_count_since_reset = 0
  /\ relay_limited_warned = FALSE
  /\ Telemetry_Counter \in TelCounters
  /\ device = "running"
  /\ env = [NoEnv EXCEPT !.telemetry = TelCycles, !.adcFaults = TelFaults,
                         !.fixes = 0..(GPS_ROUNDS - 1)]
  /\ obs = NoObs

NextTel ==
  \/ Datalink_Transmit
  \/ V_Telemetry_Task
  \/ Transmit_Data("telemetry")

SpecTel == InitTel /\ [][NextTel]_vars

\* the step in which the Telemetry Task calls Transmit_Text for a sentence
\* that carries the counter n
SubmitsSentence(n) ==
  /\ call["telemetry"] = NoCall
  /\ \E v \in {"A", "V"} : \E p \in {TextPacket(TelemetryBody(n, v))} :
       \/ call'["telemetry"].proc = "Transmit_Data" /\ call'["telemetry"].packet = p
       \/ txQueue' = <<p>> \o txQueue
\* the step submits some telemetry sentence
SubmitsAnySentence ==
  /\ call["telemetry"] = NoCall
  /\ \/ /\ call'["telemetry"].proc = "Transmit_Data"
        /\ call'["telemetry"].packet.data.kind = "telemetry"
     \/ /\ Len(txQueue') = Len(txQueue) + 1
        /\ Head(txQueue').data.kind = "telemetry"

\* C36: every telemetry cycle ends with one sentence submitted, with or
\* without a fix, after at most 3 GPS rounds; the sentence carries the frame
\* counter, which the same step advances by 1 modulo 65536; the counter
\* changes in no other step.
C36_CounterPerCycle ==
  [][ /\ (pc["telemetry"] # "tel_sleep" /\ pc'["telemetry"] = "tel_sleep") =>
           /\ SubmitsSentence(Telemetry_Counter)
           /\ tel'.retries <= 3
           /\ tel'.validity = "V" <=> tel'.retries = 3
      /\ SubmitsAnySentence =>
           /\ pc["telemetry"] # "tel_sleep" /\ pc'["telemetry"] = "tel_sleep"
           /\ Telemetry_Counter' = IF Telemetry_Counter = 65535 THEN 0 ELSE Telemetry_Counter + 1
      /\ Telemetry_Counter' # Telemetry_Counter => SubmitsAnySentence
    ]_vars

\* the counter has wrapped from 65535 to 0 in a cycle without a fix
C36_Witness ==
  /\ pc["telemetry"] = "tel_sleep"
  /\ Telemetry_Counter = 0
  /\ tel.validity = "V" /\ tel.retries = 3
  /\ env.telemetry < TelCycles
  /\ \E i \in 1..Len(txQueue) : txQueue[i] = TextPacket(TelemetryBody(65535, "V"))

(* ------------------------------------------------------------------ *)
(* Boot: phases 1 to 3 of setup()                                     *)
(* ------------------------------------------------------------------ *)
SetupFaults == 1

bootrest == <<shared, cameraMutex, inq, rx, cmd, config_changed, reconf, imgloc, relayloc, telloc,
              device>>

\* a status submitted by setup() and the functions it calls
Boots(next, code, has, info) ==
  /\ Do("loop", next, SendText(StatusBody(code, has, info)))
  /\ obs' = Logged(obs, code, has, info)

\* phase 1, after Create_Datalink_Task(): Transmit_Status(SYS_BOOTING)
setup_Booting ==
  /\ At("loop", "setup")
  /\ Boots("boot_cam", "SYS_BOOTING", FALSE, 0)
  /\ UNCHANGED <<bootrest, Initialization_Status, copies, camera, env>>

\* Setup_Camera() as setup() calls it; its result is not looked at
setup_Setup_Camera ==
  /\ \/ /\ At("loop", "boot_cam")
        /\ Boots("boot_cfg", "CAM_INIT_START", FALSE, 0)
        /\ UNCHANGED <<camera, env>>
     \/ /\ At("loop", "boot_cfg")
        /\ Do("loop", "boot_init", GetConfig("setup"))
        /\ UNCHANGED <<camera, env, obs>>
     \/ /\ At("loop", "boot_init")
        /\ \/ /\ camera' = [inited |-> TRUE,
                            frame_size |-> local_config["setup"].cameraImageSize,
                            jpeg_quality |-> local_config["setup"].cameraImageQuality]
              /\ Boots("boot_calib", "CAM_INIT_OK", FALSE, 0)
              /\ UNCHANGED env
           \/ /\ env.camFaults > 0
              /\ env' = [env EXCEPT !.camFaults = @ - 1]
              /\ Boots("boot_calib", "CAM_INIT_FAIL", TRUE, ESP_FAIL)
              /\ UNCHANGED camera
  /\ UNCHANGED <<bootrest, Initialization_Status, copies>>

\* Camera_Calibrate() as setup() calls it: a capture fails if the driver was
\* not initialised or has a fault; Signal_Error() then clears the flag
setup_Camera_Calibrate ==
  /\ \/ /\ At("loop", "boot_calib")
        /\ Boots("boot_capture", "CAM_CALIBRATE_START", FALSE, 0)
        /\ UNCHANGED <<Initialization_Status, env>>
     \/ /\ At("loop", "boot_capture")
        /\ \/ /\ camera.inited
              /\ Boots("boot_gps", "CAM_CALIBRATE_OK", FALSE, 0)
              /\ UNCHANGED env
           \/ /\ ~camera.inited \/ env.camFaults > 0
              /\ env' = [env EXCEPT !.camFaults = IF camera.inited THEN @ - 1 ELSE @]
              /\ Boots("boot_signal", "CAM_CALIBRATE_FAIL", FALSE, 0)
        /\ UNCHANGED Initialization_Status
     \/ /\ At("loop", "boot_signal")
        /\ Do("loop", "boot_flag", GetStatus)
        /\ UNCHANGED <<Initialization_Status, env, obs>>
     \/ /\ At("loop", "boot_flag")
        /\ Initialization_Status' = FALSE
        /\ Do("loop", "boot_gps", NoCall)
        /\ UNCHANGED <<env, obs>>
  /\ UNCHANGED <<bootrest, copies, camera>>

\* "unsigned long timeout_ms = 60000"; the payload "Timeout" of GPS_INIT_FAIL is
\* written as the timeout that expired
GPS_TIMEOUT_MS == 60000
\* "char TelemetryMessage[256]" before Build_Telemetry_Frame has run: all zero
TelemetryMessage == <<>>

\* Initialize_GPS(): in a DEBUG_MODE build it reports success at once;
\* otherwise a valid fix within the timeout (and the telemetry buffer is
\* sent as it is), or GPS_INIT_FAIL and the flag
Initialize_GPS ==
  /\ \/ /\ At("loop", "boot_gps")
        /\ Boots("boot_fix", "GPS_INIT_START", FALSE, 0)
        /\ UNCHANGED Initialization_Status
     \/ /\ At("loop", "boot_fix")
        /\ \E valid \in (IF env.debug THEN {TRUE} ELSE env.gps) :
             IF valid
             THEN Boots(IF env.debug THEN "init_check" ELSE "boot_tel", "GPS_INIT_OK", FALSE, 0)
             ELSE Boots("boot_timeout", "GPS_INIT_FAIL", TRUE, GPS_TIMEOUT_MS)
        /\ UNCHANGED Initialization_Status
     \/ /\ At("loop", "boot_tel")
        /\ Do("loop", "init_check", SendText(TextBody(TelemetryMessage)))
        /\ UNCHANGED <<Initialization_Status, obs>>
     \/ /\ At("loop", "boot_timeout")
        /\ Initialization_Status' = FALSE
        /\ Do("loop", "init_check", NoCall)
        /\ UNCHANGED obs
  /\ UNCHANGED <<bootrest, copies, camera, env>>

\* the firmware when setup() has created the Data-Link Task: the static
\* initialisers of main.cpp, no camera yet; the build is a DEBUG_MODE build or not
InitSetup ==
  /\ g_systemConfig = DefaultConfig
  /\ g_systemStatus = DefaultStatus
  /\ Initialization_Status = TRUE
  /\ g_configMutex = NoTask /\ g_stateMutex = NoTask /\ cameraMutex = NoTask
  /\ txQueue = <<>> /\ cmdQueue = <<>> /\ relayQueue = <<>>
  /\ serialRx = <<>> /\ frame_buffer = <<>>
  /\ pc = [t \in Tasks |-> IF t = "datalink" THEN StartPc[t]
                           ELSE IF t = "loop" THEN "setup" ELSE "not_created"]
  /\ call = [t \in Tasks |-> NoCall]
  /\ tx_result = [t \in Tasks |-> FALSE]
  /\ timeouts = 0
  /\ local_status = [t \in Tasks |-> DefaultStatus]
  /\ local_config = [x \in ConfigSlots |-> DefaultConfig]
  /\ cmd = NoCmd
  /\ config_changed = FALSE
  /\ reconf = NoReconf
  /\ camera = NoCamera
  /\ img = NoImg
  /\ tel = NoTel
  /\ ssdvImageId = 0
  /\ relay_count_since_reset = 0
  /\ relay_limited_warned = FALSE
  /\ Telemetry_Counter = 0
  /\ device = "running"
  /\ \E d \in BOOLEAN :
       env = [NoEnv EXCEPT !.camFaults = SetupFaults, !.debug = d, !.gps = BOOLEAN]
  /\ obs = [NoObs EXCEPT !.wire.on = TRUE]

NextSetup ==
  \/ Datalink_Transmit
  \/ setup_Booting
  \/ setup_Setup_Camera
  \/ setup_Camera_Calibrate
  \/ Initialize_GPS
  \/ Initialization_Check
  \/ setup
  \/ loop
  \/ GET_System_Config("loop")
  \/ GET_System_Status("loop")
  \/ Update_System_Status("loop")
  \/ Transmit_Data("loop")

SpecSetup == InitSetup /\ [][NextSetup]_vars

ApplicationTasks == {"command", "ssdv", "telemetry", "relay"}
TasksCreated == \E t \in ApplicationTasks : pc[t] # "not_created"

\* a calibration capture failed, or the GPS initialisation timed out
BootFault == HasCode("CAM_CALIBRATE_FAIL") \/ HasCode("GPS_INIT_FAIL")

\* the step in which setup() performs the check of Initialization_Check()
Checks == At("loop", "init_check") /\ pc'["loop"] # "init_check"

\* a step of setup()
LoopSteps == pc'["loop"] # pc["loop"] \/ call'["loop"] # call["loop"] \/ device' # device

\* C37: at boot a failed calibration capture or a GPS timeout clears
\* Initialization_Status, and the one check at the end of setup() then submits
\* SYS_INIT_FAIL, after which the only step of setup() is esp_restart(); the
\* Command, Image, Telemetry and Relay tasks exist only in a boot whose check
\* passed and after SYS_INIT_OK was submitted; the first status a boot submits
\* is SYS_BOOTING.
C37_BootCheck ==
  /\ [](obs.cmdLog # <<>> => obs.cmdLog[1].code = "SYS_BOOTING")
  /\ []((BootFault /\ pc["loop"] = "init_check") => ~Initialization_Status)
  /\ [][(Checks /\ ~Initialization_Status)
          => (pc'["loop"] = "init_restart"
              /\ obs'.cmdLog = Append(obs.cmdLog, [code |-> "SYS_INIT_FAIL", has |-> FALSE, info |-> 0]))]_vars
  /\ [][(At("loop", "init_restart") /\ LoopSteps) => device' = "restarted"]_vars
  /\ [](TasksCreated => (Initialization_Status /\ ~BootFault /\ HasCode("SYS_INIT_OK")
                         /\ ~HasCode("SYS_INIT_FAIL") /\ \A t \in ApplicationTasks : pc[t] # "not_created"))
  /\ [](HasCode("SYS_INIT_FAIL") => (BootFault /\ ~TasksCreated))
  /\ [](device = "restarted" => (obs.restart = "INIT" /\ HasCode("SYS_INIT_FAIL")))

\* a boot whose calibration capture failed has submitted SYS_INIT_FAIL and restarted
C37_Witness ==
  /\ device = "restarted"
  /\ obs.restart = "INIT"
  /\ HasCode("CAM_CALIBRATE_FAIL")
  /\ obs.cmdLog[1].code = "SYS_BOOTING"
  /\ obs.cmdLog[Len(obs.cmdLog)].code = "SYS_INIT_FAIL"

(* ------------------------------------------------------------------ *)
(* Queue transfers and the buffers of the tasks                       *)
(* ------------------------------------------------------------------ *)
\* "xQueueCreate(10, MAX_RX_BUFF_SIZE)": the bytes one xQueueSend or
\* xQueueReceive on cmdQueue or relayQueue copies
QueueItemSize == MAX_RX_BUFF_SIZE
\* "char cmd_buffer[MAX_RX_BUFF_SIZE]"
cmd_buffer_size == MAX_RX_BUFF_SIZE
\* "char relay_buffer[256]"
relay_buffer_size == 256
\* "&frame_buffer[2]"
PayloadOffset == 2

\* the bytes of an array of n bytes, and those a copy of n bytes from offset touches
Bytes(n) == 0..(n - 1)
Touched(offset, n) == offset..(offset + n - 1)

\* the steps in which an item is copied: the Data-Link Task forwards a frame,
\* the Command Task or the Relay Task receives one
Forwards == Len(cmdQueue') > Len(cmdQueue) \/ Len(relayQueue') > Len(relayQueue)
CmdTakes == cmdQueue # <<>> /\ cmdQueue' = Tail(cmdQueue)

\* C38 as stated: every transfer stays inside the buffer of the task: a
\* receive on the command queue or the relay queue copies an item into a
\* buffer of at least the item size, the bytes the Data-Link Task forwards
\* from offset 2 of its frame buffer lie inside the frame buffer, and the
\* frame length stays in 0..511.
C38_AsStated ==
  /\ [](Len(frame_buffer) \in Bytes(MAX_RX_BUFF_SIZE))
  /\ [][CmdTakes => Touched(0, QueueItemSize) \subseteq Bytes(cmd_buffer_size)]_vars
  /\ [][RelayTakes => Touched(0, QueueItemSize) \subseteq Bytes(relay_buffer_size)]_vars
  /\ [][Forwards => Touched(PayloadOffset, QueueItemSize) \subseteq Bytes(MAX_RX_BUFF_SIZE)]_vars

(* ------------------------------------------------------------------ *)
(* The image id of SSDV_ENCODE_START, of the encoder, of SSDV_ENCODE_END *)
(* ------------------------------------------------------------------ *)
IdImages == 2
IdFaults == 1
\* the images taken before the run starts
IdStarts == {0, 254, 255}

\* the firmware with its tasks created, when IdStarts images have been encoded
InitId ==
  /\ g_systemConfig = DefaultConfig
  /\ g_systemStatus = DefaultStatus
  /\ Initialization_Status = TRUE
  /\ g_configMutex = NoTask /\ g_stateMutex = NoTask /\ cameraMutex = NoTask
  /\ txQueue = <<>> /\ cmdQueue = <<>> /\ relayQueue = <<>>
  /\ serialRx = <<>> /\ frame_buffer = <<>>
  /\ pc = StartPc
  /\ call = [t \in Tasks |-> NoCall]
  /\ tx_result = [t \in Tasks |-> FALSE]
  /\ timeouts = 0
  /\ local_status = [t \in Tasks |-> DefaultStatus]
  /\ local_config = [x \in ConfigSlots |-> DefaultConfig]
  /\ cmd = NoCmd
  /\ config_changed = FALSE
  /\ reconf = NoReconf
  /\ camera = [inited |-> TRUE, frame_size |-> DefaultConfig.cameraImageSize,
               jpeg_quality |-> DefaultConfig.cameraImageQuality]
  /\ img = NoImg
  /\ tel = NoTel
  /\ ssdvImageId \in IdStarts
  /\ relay_count_since_reset = 0
  /\ relay_limited_warned = FALSE
  /\ Telemetry_Counter = 0
  /\ device = "running"
  /\ env = [NoEnv EXCEPT !.images = IdImages, !.imgFaults = IdFaults]
  /\ obs = [NoObs EXCEPT !.wire.on = TRUE]

SpecId == InitId /\ [][NextFeed]_vars

\* the step hands the status code with the number id to Transmit_Status
ImageSubmits(code, id) ==
  /\ call["ssdv"] = NoCall
  /\ \E p \in {TextPacket(StatusBody(code, TRUE, id))} :
       \/ call'["ssdv"].proc = "Transmit_Data" /\ call'["ssdv"].packet = p
       \/ txQueue' = <<p>> \o txQueue

\* C39 as stated: SSDV_ENCODE_START carries the value of the image counter,
\* the encoder is given that same value, and SSDV_ENCODE_END carries the id
\* the encoder was given, for every value of the counter, 255 included; the
\* counter moves only when an image reaches the encoder, by 1 modulo 256.
C39_AsStated ==
  /\ [][(At("ssdv", "ssdv_start") /\ pc'["ssdv"] # "ssdv_start")
          => ImageSubmits("SSDV_ENCODE_START", ssdvImageId)]_vars
  /\ [][ssdvImageId' # ssdvImageId
          => (At("ssdv", "ssdv_encode") /\ img'.id = ssdvImageId
              /\ ssdvImageId' = (ssdvImageId + 1) % 256)]_vars
  /\ [][(At("ssdv", "ssdv_encode") /\ pc'["ssdv"] # "ssdv_encode")
          => ssdvImageId' # ssdvImageId]_vars
  /\ [][(At("ssdv", "ssdv_end") /\ pc'["ssdv"] # "ssdv_end")
          => ImageSubmits("SSDV_ENCODE_END", img.id)]_vars

(* ------------------------------------------------------------------ *)
(* A restart and the frame that announces it                          *)
(* ------------------------------------------------------------------ *)
\* the status frame of code waits in the transmit queue / was written to the port
Queued(code) == \E i \in 1..Len(txQueue) : txQueue[i] = TextPacket(StatusBody(code, FALSE, 0))
OnWire(code) ==
  \E i \in 1..Len(obs.wire.log) : obs.wire.log[i] = TextPacket(StatusBody(code, FALSE, 0))

\* "vTaskDelay(1000)" (CTL SYS REBOOT) and "vTaskDelay(2000)" (Initialization_Check)
\* between Transmit_Status and esp_restart(): the Data-Link Task, which has
\* the highest priority and looks at the transmit queue every 10 ms, has taken
\* the frame Transmit_Text put at the head of the queue before the delay ends
DelayElapsed(code) == device' = "restarted" => ~Queued(code)

\* Handle_CTL_Command and Initialization_Check with the length of their delays
Handle_CTL_Command_Delayed == Handle_CTL_Command /\ DelayElapsed("SYS_RESTARTING")
Initialization_Check_Delayed == Initialization_Check /\ DelayElapsed("SYS_INIT_FAIL")

NextLate ==
  \/ Serial_Arrive
  \/ Datalink_Transmit
  \/ Datalink_Receive
  \/ Initialization_Check_Delayed
  \/ setup
  \/ loop
  \/ V_Command_Task
  \/ Handle_CTL_Command_Delayed
  \/ SetActions
  \/ GET_System_Status("command")
  \/ Update_System_Status("loop")
  \/ GET_System_Config("command")
  \/ Update_System_Config("command")
  \/ \E t \in {"loop", "command"} : Transmit_Data(t)
  \/ Signal_Error("command")

SpecLate == InitBoot /\ [][NextLate]_vars

\* C40 as stated: when esp_restart() is called (CTL SYS REBOOT, the fatal
\* camera rollback, a failed initialization), the status frame that announces
\* the restart has been taken from the transmit queue and written to the
\* serial port by the Data-Link Task: none is lost in the queue.
C40_AsStated ==
  [][(device = "running" /\ device' = "restarted")
       => (OnWire(AnnounceCode(obs'.restart)) /\ ~Queued(AnnounceCode(obs'.restart)))]_vars
====
